---- MODULE Spec2Model ----
(***************************************************************************)
(* manBus: the geospatial proximity and route-membership subsystem.        *)
(*                                                                         *)
(* The application layer is controller -> service -> repository ->         *)
(* Database (psycopg2 connection pool) -> PostgreSQL stored function.      *)
(* The Python layers are modelled from the source.  The stored functions   *)
(* (fn_find_nearest_stops, fn_is_point_on_route, ...) are not part of the  *)
(* Python sources; they are modelled from the specification's sections     *)
(* 4.1-4.4 and are the definitions whose names start with "fn_".           *)
(*                                                                         *)
(* Coordinates live on an integer lattice; one lattice step is CellMeters  *)
(* metres, distances are whole metres (rounded down).                      *)
(***************************************************************************)
EXTENDS Integers, Sequences, FiniteSets, TLC

(***************************************************************************)
(* Bounds of the model.                                                    *)
(***************************************************************************)
LatMax == 1
LonMax == 1
MaxStops == 2
MaxPathLen == 3
MaxBuses == 1
CellMeters == 100
MaxCalls == 3

(***************************************************************************)
(* Program constants.                                                      *)
(***************************************************************************)
DefaultStopRadius == 1000
DefaultStopLimit == 10
DefaultBusLimit == 5
DefaultPageLimit == 10
DefaultRouteRadius == 500
DefaultTolerance == 100
MinRadius == 1
MaxRouteRadius == 10000
MinLimit == 1
MinPathLen == 2
MinNameLen == 3
DefaultSequence == 0
MaxLatitude == 90
MaxLongitude == 180
HttpOk == 200
HttpCreated == 201
HttpFail == 400
HttpNotFound == 404
HttpError == 500

(***************************************************************************)
(* The committed contents of the tables Stops, Routes, Buses and           *)
(* RouteStops; the request served one handler at a time and its response;  *)
(* the requests served concurrently, one repository call at a time.        *)
(***************************************************************************)
VARIABLES stops, routes, buses, routestops, request, response, threads, pool

tables == <<stops, routes, buses, routestops>>

vars == <<stops, routes, buses, routestops, request, response, threads, pool>>

Lats == 0..LatMax
Lons == 0..LonMax
Points == [lat : Lats, lon : Lons]

(***************************************************************************)
(* An optional value (a query parameter that may be absent, a column that  *)
(* may be NULL, a Python Optional) is <<>> or <<v>>.                       *)
(***************************************************************************)
None == <<>>
Some(v) == <<v>>
OptOf(S) == {None} \cup {Some(v) : v \in S}

(***************************************************************************)
(* Geometry primitives (specification 4.1).                                *)
(***************************************************************************)
\* The integer square root, by bisection of [lo, hi).
RECURSIVE ISqrtBetween(_, _, _)
ISqrtBetween(n, lo, hi) ==
    IF hi - lo <= 1 THEN lo
    ELSE LET mid == (lo + hi) \div 2
         IN  IF mid * mid <= n THEN ISqrtBetween(n, mid, hi)
             ELSE ISqrtBetween(n, lo, mid)

\* The least power of two above the square root, from h on.
RECURSIVE ISqrtAbove(_, _)
ISqrtAbove(n, h) == IF h * h > n THEN h ELSE ISqrtAbove(n, 2 * h)

ISqrt(n) == ISqrtBetween(n, 0, ISqrtAbove(n, 1))

SqUnits(a, b) ==
    (a.lat - b.lat) * (a.lat - b.lat) + (a.lon - b.lon) * (a.lon - b.lon)

Distance(a, b) == ISqrt(SqUnits(a, b) * CellMeters * CellMeters)

Dot(p, a, b) ==
    (p.lat - a.lat) * (b.lat - a.lat) + (p.lon - a.lon) * (b.lon - a.lon)

ProjectPointOntoSegment(p, segStart, segEnd) ==
    LET len2 == SqUnits(segStart, segEnd)
        dot  == Dot(p, segStart, segEnd)
    IN  IF len2 = 0 THEN Distance(p, segStart)
        ELSE IF dot <= 0 THEN Distance(p, segStart)
        ELSE IF dot >= len2 THEN Distance(p, segEnd)
        ELSE ISqrt(((SqUnits(p, segStart) * len2 - dot * dot)
                     * CellMeters * CellMeters) \div len2)

Min(a, b) == IF a <= b THEN a ELSE b

RECURSIVE MinSegmentDistance(_, _, _)
MinSegmentDistance(path, p, i) ==
    LET d == ProjectPointOntoSegment(p, path[i], path[i + 1])
    IN  IF i + 1 >= Len(path) THEN d
        ELSE Min(d, MinSegmentDistance(path, p, i + 1))

RECURSIVE SumSegments(_, _)
SumSegments(path, i) ==
    IF i >= Len(path) THEN 0
    ELSE Distance(path[i], path[i + 1]) + SumSegments(path, i + 1)

(***************************************************************************)
(* Rows of a proximity result: {id, distance}.  ORDER BY distance, id.     *)
(***************************************************************************)
RowLeq(r, q) ==
    r.distance < q.distance \/ (r.distance = q.distance /\ r.id <= q.id)

RECURSIVE SortRows(_)
SortRows(S) ==
    IF S = {} THEN <<>>
    ELSE LET m == CHOOSE r \in S : \A q \in S : RowLeq(r, q)
         IN  <<m>> \o SortRows(S \ {m})

Truncate(s, n) == IF Len(s) <= n THEN s ELSE SubSeq(s, 1, n)

(***************************************************************************)
(* Stored functions.  Each returns the outcome of one SQL statement:       *)
(* err = TRUE when the statement raises, otherwise the rows it yields.     *)
(***************************************************************************)
SqlRows(rows) == [err |-> FALSE, rows |-> rows]
SqlError == [err |-> TRUE, rows |-> <<>>]

Origin(latitude, longitude) == [lat |-> latitude, lon |-> longitude]

WithinRadius(d, radius_meters) == radius_meters = 0 \/ d <= radius_meters

fn_find_nearest_stops(stopsT, latitude, longitude, radius_meters, limit) ==
    IF limit <= 0 THEN SqlError
    ELSE LET all == {[id |-> i,
                      distance |-> Distance(Origin(latitude, longitude), stopsT[i])]
                        : i \in DOMAIN stopsT}
             near == {r \in all : WithinRadius(r.distance, radius_meters)}
         IN  SqlRows(Truncate(SortRows(near), limit))

fn_find_nearest_bus(busesT, latitude, longitude, route_id, limit) ==
    IF limit <= 0 THEN SqlError
    ELSE LET cand == {b \in DOMAIN busesT :
                        /\ busesT[b].loc # None
                        /\ (route_id = None \/ busesT[b].route_id = route_id)}
             all == {[id |-> b,
                      distance |-> Distance(Origin(latitude, longitude),
                                            busesT[b].loc[1])] : b \in cand}
         IN  SqlRows(Truncate(SortRows(all), limit))

fn_find_routes_near_location(routesT, latitude, longitude, radius_meters) ==
    LET cand == {r \in DOMAIN routesT : Len(routesT[r].path) >= 2}
        all == {[id |-> r,
                 distance |-> MinSegmentDistance(routesT[r].path,
                                  Origin(latitude, longitude), 1)] : r \in cand}
        near == {r \in all : r.distance <= radius_meters}
    IN  SqlRows(SortRows(near))

fn_is_point_on_route(routesT, route_id, latitude, longitude, tolerance_meters) ==
    IF route_id \notin DOMAIN routesT THEN SqlError
    ELSE IF Len(routesT[route_id].path) < 2 THEN SqlError
    ELSE SqlRows(<<[result |->
            MinSegmentDistance(routesT[route_id].path,
                Origin(latitude, longitude), 1) <= tolerance_meters]>>)

fn_get_route_length(routesT, route_id) ==
    IF route_id \notin DOMAIN routesT THEN SqlError
    ELSE IF Len(routesT[route_id].path) < 2 THEN SqlError
    ELSE SqlRows(<<[length |-> SumSegments(routesT[route_id].path, 1)]>>)

SelectRouteById(routesT, route_id) ==
    IF route_id \in DOMAIN routesT
    THEN SqlRows(<<[id |-> route_id, path |-> routesT[route_id].path]>>)
    ELSE SqlRows(<<>>)

SelectRouteByName(routesT, name) ==
    LET ids == {r \in DOMAIN routesT : routesT[r].name = name}
    IN  IF ids = {} THEN SqlRows(<<>>)
        ELSE SqlRows(<<[id |-> CHOOSE r \in ids : \A q \in ids : r <= q]>>)

(***************************************************************************)
(* Stored functions that write.  Besides its rows, the outcome carries db, *)
(* the table as the statement leaves it inside its own transaction.        *)
(***************************************************************************)
SqlWrite(rows, db) == [err |-> FALSE, rows |-> rows, db |-> db]
SqlWriteError(db) == [err |-> TRUE, rows |-> <<>>, db |-> db]

NextId(T) == IF DOMAIN T = {} THEN 1
             ELSE 1 + (CHOOSE i \in DOMAIN T : \A j \in DOMAIN T : j <= i)

\* A RoutePath has at least two coordinates: a shorter one is refused.
fn_create_route(routesT, name, coordinates) ==
    IF Len(coordinates) < MinPathLen THEN SqlWriteError(routesT)
    ELSE LET id == NextId(routesT)
         IN  SqlWrite(<<[result |-> id]>>,
                      [r \in DOMAIN routesT \cup {id} |->
                          IF r = id THEN [name |-> name, path |-> coordinates]
                          ELSE routesT[r]])

fn_update_route_geometry(routesT, route_id, coordinates) ==
    IF Len(coordinates) < MinPathLen THEN SqlWriteError(routesT)
    ELSE IF route_id \notin DOMAIN routesT
         THEN SqlWrite(<<[result |-> FALSE]>>, routesT)
    ELSE SqlWrite(<<[result |-> TRUE]>>,
                  [routesT EXCEPT ![route_id].path = coordinates])

\* UPDATE Routes SET name = %s, updated_at = NOW() WHERE id = %s
UpdateRouteName(routesT, route_id, name) ==
    IF route_id \in DOMAIN routesT
    THEN SqlWrite(<<>>, [routesT EXCEPT ![route_id].name = name])
    ELSE SqlWrite(<<>>, routesT)

\* DELETE FROM Routes WHERE id = %s
DeleteRoute(routesT, route_id) ==
    SqlWrite(<<>>, [r \in DOMAIN routesT \ {route_id} |-> routesT[r]])

\* SELECT EXISTS(SELECT 1 FROM Buses WHERE bus_id = %s) AS exists
SelectBusExists(busesT, bus_id) ==
    SqlRows(<<[exists |-> bus_id \in DOMAIN busesT]>>)

fn_get_bus_by_id(busesT, bus_id) ==
    IF bus_id \in DOMAIN busesT
    THEN SqlRows(<<[id |-> bus_id, route_id |-> busesT[bus_id].route_id,
                    status |-> busesT[bus_id].status]>>)
    ELSE SqlRows(<<>>)

\* UPDATE Buses SET route_id = %s, status = %s WHERE bus_id = %s, with the
\* columns the entity has a key for.
UpdateBus(busesT, bus_id, entity) ==
    IF bus_id \in DOMAIN busesT
    THEN SqlWrite(<<>>,
             [busesT EXCEPT
                 ![bus_id].route_id =
                     IF entity.route_id # None THEN entity.route_id[1] ELSE @,
                 ![bus_id].status =
                     IF entity.status # None THEN entity.status[1] ELSE @])
    ELSE SqlWrite(<<>>, busesT)

\* DELETE FROM Buses WHERE bus_id = %s
DeleteBus(busesT, bus_id) ==
    SqlWrite(<<>>, [b \in DOMAIN busesT \ {bus_id} |-> busesT[b]])

\* The buses after the cursor in the order of their ids, at most limit of
\* them; without include_inactive only the Active ones.
RECURSIVE BusRowsAscending(_)
BusRowsAscending(ids) ==
    IF ids = {} THEN <<>>
    ELSE LET m == CHOOSE b \in ids : \A q \in ids : b <= q
         IN  <<[bus_id |-> m]>> \o BusRowsAscending(ids \ {m})

fn_get_all_buses(busesT, cursor, limit, include_inactive) ==
    IF limit < 0 THEN SqlError
    ELSE SqlRows(Truncate(BusRowsAscending(
             {b \in DOMAIN busesT :
                 /\ include_inactive \/ busesT[b].status = "Active"
                 /\ cursor = None \/ b > cursor[1]}), limit))

\* The bus takes the new position; no bus with that id, no update.
fn_update_bus_location(busesT, bus_id, latitude, longitude) ==
    IF bus_id \notin DOMAIN busesT THEN SqlWrite(<<[result |-> FALSE]>>, busesT)
    ELSE SqlWrite(<<[result |-> TRUE]>>,
             [busesT EXCEPT ![bus_id].loc = Some(Origin(latitude, longitude))])

fn_update_bus_status(busesT, bus_id, status) ==
    IF bus_id \notin DOMAIN busesT THEN SqlWrite(<<[result |-> FALSE]>>, busesT)
    ELSE SqlWrite(<<[result |-> TRUE]>>,
             [busesT EXCEPT ![bus_id].status = status])

\* The bus and its assigned route must exist; a bus whose position is not
\* known is on no route.
fn_is_bus_on_route(busesT, routesT, bus_id, tolerance_meters) ==
    IF bus_id \notin DOMAIN busesT THEN SqlError
    ELSE IF busesT[bus_id].route_id = None THEN SqlError
    ELSE IF busesT[bus_id].route_id[1] \notin DOMAIN routesT THEN SqlError
    ELSE IF busesT[bus_id].loc = None THEN SqlRows(<<[result |-> FALSE]>>)
    ELSE fn_is_point_on_route(routesT, busesT[bus_id].route_id[1],
             busesT[bus_id].loc[1].lat, busesT[bus_id].loc[1].lon,
             tolerance_meters)

(***************************************************************************)
(* RouteStops holds associations [route_id, stop_id, stop_sequence].  The  *)
(* stored functions keep the sequence values of a route distinct: a write  *)
(* that would repeat one is refused as a whole.                            *)
(***************************************************************************)
StopsOfRoute(rsT, route_id) == {a \in rsT : a.route_id = route_id}

UniqueSequences(rsT) ==
    \A a \in rsT, b \in rsT :
        (a.route_id = b.route_id /\ a.stop_sequence = b.stop_sequence)
            => a.stop_id = b.stop_id

fn_add_stop_to_route(rsT, routesT, stopsT, route_id, stop_id, sequence) ==
    LET added == rsT \cup {[route_id |-> route_id, stop_id |-> stop_id,
                            stop_sequence |-> sequence]}
    IN  IF route_id \notin DOMAIN routesT \/ stop_id \notin DOMAIN stopsT
        THEN SqlWriteError(rsT)
        ELSE IF \E a \in StopsOfRoute(rsT, route_id) : a.stop_id = stop_id
        THEN SqlWrite(<<[result |-> FALSE]>>, rsT)
        ELSE IF ~UniqueSequences(added) THEN SqlWriteError(rsT)
        ELSE SqlWrite(<<[result |-> TRUE]>>, added)

fn_remove_stop_from_route(rsT, route_id, stop_id) ==
    LET gone == {a \in rsT : a.route_id = route_id /\ a.stop_id = stop_id}
    IN  SqlWrite(<<[result |-> gone # {}]>>, rsT \ gone)

\* stop_sequences maps each listed stop to its new sequence value.
ReplaceSequences(rsT, route_id, stop_sequences) ==
    {IF a.route_id = route_id /\ a.stop_id \in DOMAIN stop_sequences
     THEN [a EXCEPT !.stop_sequence = stop_sequences[a.stop_id]]
     ELSE a : a \in rsT}

fn_reorder_route_stops(rsT, route_id, stop_sequences) ==
    LET replaced == ReplaceSequences(rsT, route_id, stop_sequences)
    IN  IF Cardinality(replaced) # Cardinality(rsT) \/ ~UniqueSequences(replaced)
        THEN SqlWriteError(rsT)
        ELSE SqlWrite(<<[result |-> TRUE]>>, replaced)

fn_get_stops_on_route(rsT, route_id) ==
    SqlRows(SortRows({[id |-> a.stop_id, distance |-> a.stop_sequence]
                         : a \in StopsOfRoute(rsT, route_id)}))

(***************************************************************************)
(* config/database.py: the methods class Database defines.                 *)
(***************************************************************************)
DatabaseMethods ==
    {"get_connection", "get_cursor", "query", "execute", "execute_many",
     "fetch_one", "check_health", "close_all_connections"}

(***************************************************************************)
(* Database.fetch_one: run the statement on a pooled connection with       *)
(* get_cursor(commit=False); the statement's error is re-raised, otherwise *)
(* cursor.fetchone() gives the first row or None.                          *)
(***************************************************************************)
Database_fetch_one(sql) ==
    IF sql.err THEN [kind |-> "DatabaseError", val |-> None]
    ELSE [kind |-> "ok",
          val |-> IF sql.rows = <<>> THEN None ELSE Some(sql.rows[1])]

(***************************************************************************)
(* Database.get_cursor: the table once the cursor's connection is back in  *)
(* the pool.  A failed statement is rolled back; a successful one is       *)
(* committed only with commit=True, and otherwise its transaction is still *)
(* open when get_connection hands the connection to pool.putconn, which    *)
(* rolls it back.                                                          *)
(***************************************************************************)
Database_get_cursor(commit, sql, db) ==
    IF sql.err THEN db
    ELSE IF commit THEN sql.db
    ELSE db

\* Database.execute: get_cursor(commit=True).
Database_execute(sql, db) ==
    [kind |-> IF sql.err THEN "DatabaseError" ELSE "ok",
     db |-> Database_get_cursor(TRUE, sql, db)]

\* Database.fetch_one, for a statement that writes: get_cursor().
Database_fetch_one_db(sql, db) == Database_get_cursor(FALSE, sql, db)

(***************************************************************************)
(* One call of a Database method, statement by statement.  The pool hands  *)
(* out a connection (used), the call runs on it and get_connection's       *)
(* finally hands it back.  taken and returned count getconn and putconn;   *)
(* tx is the connection's transaction: "idle", "open" after a statement    *)
(* that worked, "aborted" after one that failed, "unknown" once the        *)
(* connection is lost.                                                     *)
(***************************************************************************)
PoolCallers == {"query", "fetch_one", "execute", "execute_many", "check_health"}

PoolAtRest ==
    [pc |-> "rest", method |-> "none", used |-> 0, taken |-> 0,
     returned |-> 0, conn |-> "none", tx |-> "idle", raised |-> FALSE,
     committed |-> FALSE, rolledback |-> FALSE, answer |-> "none",
     calls |-> 0]

\* execute and execute_many ask for get_cursor(commit=True).
CommitAsked(method) == method \in {"execute", "execute_many"}

PoolFrame == UNCHANGED <<tables, request, response, threads>>

\* query, execute, execute_many, fetch_one, check_health: enter
\* "with self.get_cursor(...)".
Database_call ==
    /\ pool.pc = "rest"
    /\ pool.calls < MaxCalls
    /\ \E method \in PoolCallers \cap DatabaseMethods :
         pool' = [pool EXCEPT !.pc = "getconn", !.method = method,
                              !.conn = "none", !.tx = "idle",
                              !.raised = FALSE, !.committed = FALSE,
                              !.rolledback = FALSE, !.answer = "none"]
    /\ PoolFrame

\* conn = self._pool.getconn(): a connection, or an error of the pool that
\* leaves conn None.
get_connection_getconn ==
    /\ pool.pc = "getconn"
    /\ \/ pool' = [pool EXCEPT !.pc = "cursor", !.conn = "ok",
                               !.used = @ + 1, !.taken = @ + 1]
       \/ pool' = [pool EXCEPT !.pc = "return", !.raised = TRUE]
    /\ PoolFrame

\* cursor = conn.cursor(), outside get_cursor's try: when it raises, only
\* get_connection's finally runs.
get_cursor_cursor ==
    /\ pool.pc = "cursor"
    /\ \/ pool' = [pool EXCEPT !.pc = "execute"]
       \/ pool' = [pool EXCEPT !.pc = "putconn", !.conn = "lost",
                               !.tx = "unknown", !.raised = TRUE]
    /\ PoolFrame

\* The body of the with: cursor.execute / executemany and the fetch.  A
\* statement that works opens a transaction; one that raises aborts it, or
\* loses the connection.
cursor_execute ==
    /\ pool.pc = "execute"
    /\ \/ pool' = [pool EXCEPT !.tx = "open",
                     !.pc = IF CommitAsked(pool.method) THEN "commit"
                            ELSE "close"]
       \/ pool' = [pool EXCEPT !.pc = "rollback", !.tx = "aborted",
                               !.raised = TRUE]
       \/ pool' = [pool EXCEPT !.pc = "rollback", !.tx = "unknown",
                               !.conn = "lost", !.raised = TRUE]
    /\ PoolFrame

\* if commit: conn.commit().  A commit the server refuses ends the
\* transaction without its effects and raises into the except clause.
get_cursor_commit ==
    /\ pool.pc = "commit"
    /\ \/ pool' = [pool EXCEPT !.pc = "close", !.tx = "idle",
                               !.committed = TRUE]
       \/ pool' = [pool EXCEPT !.pc = "rollback", !.tx = "idle",
                               !.raised = TRUE]
    /\ PoolFrame

\* except Exception: conn.rollback(); raise.  On a lost connection the
\* rollback raises itself; the finally clause runs either way.
get_cursor_rollback ==
    /\ pool.pc = "rollback"
    /\ pool' = IF pool.conn = "ok"
               THEN [pool EXCEPT !.pc = "close", !.tx = "idle",
                                 !.rolledback = TRUE]
               ELSE [pool EXCEPT !.pc = "close"]
    /\ PoolFrame

\* finally: cursor.close()
get_cursor_close ==
    /\ pool.pc = "close"
    /\ pool' = [pool EXCEPT !.pc = "putconn"]
    /\ PoolFrame

\* SimpleConnectionPool.putconn: a connection whose transaction is not idle
\* is rolled back before it is kept; a lost one is closed and dropped, and
\* the server ends its transaction without committing.
pool_putconn(p) ==
    [p EXCEPT !.used = @ - 1, !.returned = @ + 1, !.tx = "idle",
              !.rolledback = @ \/ (p.conn = "ok" /\ p.tx # "idle"),
              !.conn = IF p.conn = "ok" THEN "pooled" ELSE "closed"]

\* Mutation: the connection goes back to the pool only when the body did
\* not raise.
get_connection_finally_OnSuccessOnly ==
    /\ pool.pc = "putconn"
    /\ pool' = IF pool.raised THEN [pool EXCEPT !.pc = "return"]
               ELSE [pool_putconn(pool) EXCEPT !.pc = "return"]
    /\ PoolFrame

\* finally: if conn: self._pool.putconn(conn)
get_connection_finally ==
    /\ pool.pc = "putconn"
    /\ pool' = [pool_putconn(pool) EXCEPT !.pc = "return"]
    /\ PoolFrame

\* except Exception: raise, and in check_health: return False.
Database_return ==
    /\ pool.pc = "return"
    /\ pool' = [pool EXCEPT !.pc = "rest", !.calls = @ + 1,
                  !.answer = IF pool.method = "check_health"
                             THEN IF pool.raised THEN "False" ELSE "True"
                             ELSE IF pool.raised THEN "raise" ELSE "ok"]
    /\ PoolFrame

(***************************************************************************)
(* BaseRepository._execute_query: any exception below it, including the    *)
(* AttributeError of a method the executor does not have, is re-raised as  *)
(* a bare Exception("Query execution failed: ...").                        *)
(***************************************************************************)
BaseRepository_execute_query(sql, fetch_one) ==
    IF fetch_one
    THEN LET result == Database_fetch_one(sql)
         IN  IF result.kind # "ok" THEN [kind |-> "Exception", val |-> None]
             ELSE [kind |-> "ok", val |-> result.val]
    ELSE IF "fetch_all" \notin DatabaseMethods
         THEN [kind |-> "Exception", val |-> <<>>]
         ELSE IF sql.err THEN [kind |-> "Exception", val |-> <<>>]
              ELSE [kind |-> "ok", val |-> sql.rows]

(***************************************************************************)
(* Outcome of a service call: the Python exception class (or "ok"), a code *)
(* for the message, the returned value, and the number of repository       *)
(* calls the service made.                                                 *)
(***************************************************************************)
Raise(kind, err, calls) ==
    [kind |-> kind, err |-> err, rows |-> <<>>, flag |-> FALSE, num |-> 0,
     calls |-> calls]

Return(rows, flag, num, calls) ==
    [kind |-> "ok", err |-> "", rows |-> rows, flag |-> flag, num |-> num,
     calls |-> calls]

(***************************************************************************)
(* repositories/route_repository.py                                        *)
(***************************************************************************)
RouteRepository_get_by_id(routesT, route_id) ==
    BaseRepository_execute_query(SelectRouteById(routesT, route_id), TRUE)

RouteRepository_find_nearest_stops(stopsT, latitude, longitude, radius_meters, limit) ==
    BaseRepository_execute_query(
        fn_find_nearest_stops(stopsT, latitude, longitude, radius_meters, limit),
        FALSE)

RouteRepository_find_routes_near_location(routesT, latitude, longitude, radius_meters) ==
    BaseRepository_execute_query(
        fn_find_routes_near_location(routesT, latitude, longitude, radius_meters),
        FALSE)

\* Mutation: the coordinates are passed to the stored function in the order
\* (longitude, latitude).
RouteRepository_is_point_on_route_SwappedCoords(routesT, route_id, latitude, longitude, tolerance_meters) ==
    LET result == BaseRepository_execute_query(
                      fn_is_point_on_route(routesT, route_id, longitude,
                                           latitude, tolerance_meters), TRUE)
    IN  IF result.kind # "ok" THEN result
        ELSE [kind |-> "ok",
              val |-> IF result.val # None THEN result.val[1].result ELSE FALSE]

\* Mutation: the row is read under a key the query does not select, so
\* dict.get falls back to its default False.
RouteRepository_is_point_on_route_WrongColumn(routesT, route_id, latitude, longitude, tolerance_meters) ==
    LET result == BaseRepository_execute_query(
                      fn_is_point_on_route(routesT, route_id, latitude,
                                           longitude, tolerance_meters), TRUE)
    IN  IF result.kind # "ok" THEN result
        ELSE [kind |-> "ok", val |-> FALSE]

RouteRepository_is_point_on_route(routesT, route_id, latitude, longitude, tolerance_meters) ==
    LET result == BaseRepository_execute_query(
                      fn_is_point_on_route(routesT, route_id, latitude,
                                           longitude, tolerance_meters), TRUE)
    IN  IF result.kind # "ok" THEN result
        ELSE [kind |-> "ok",
              val |-> IF result.val # None THEN result.val[1].result ELSE FALSE]

\* Mutation: the row is read under a key the query does not select, so
\* dict.get falls back to its default 0.
RouteRepository_get_route_length_WrongColumn(routesT, route_id) ==
    LET result == BaseRepository_execute_query(
                      fn_get_route_length(routesT, route_id), TRUE)
    IN  IF result.kind # "ok" THEN result
        ELSE [kind |-> "ok", val |-> 0]

RouteRepository_get_route_length(routesT, route_id) ==
    LET result == BaseRepository_execute_query(
                      fn_get_route_length(routesT, route_id), TRUE)
    IN  IF result.kind # "ok" THEN result
        ELSE [kind |-> "ok",
              val |-> IF result.val # None THEN result.val[1].length ELSE 0]

RouteRepository_get_by_name(routesT, route_name) ==
    BaseRepository_execute_query(SelectRouteByName(routesT, route_name), TRUE)

\* The writes below return, besides the value, db: the committed Routes
\* table once the call is over.
RouteRepository_create(routesT, entity) ==
    LET sql == fn_create_route(routesT, entity.name, entity.coordinates)
        result == BaseRepository_execute_query(sql, TRUE)
        db == Database_fetch_one_db(sql, routesT)
    IN  IF result.kind # "ok"
        THEN [kind |-> result.kind, val |-> None, db |-> db]
        ELSE IF result.val # None /\ result.val[1].result # 0
        THEN LET route == RouteRepository_get_by_id(db, result.val[1].result)
             IN  [kind |-> route.kind, val |-> route.val, db |-> db]
        ELSE [kind |-> "ok", val |-> None, db |-> db]

\* Mutation: the failure of the statement is caught and the update is
\* reported as done.
RouteRepository_update_geometry_SwallowsError(routesT, route_id, coordinates) ==
    LET sql == fn_update_route_geometry(routesT, route_id, coordinates)
        result == BaseRepository_execute_query(sql, TRUE)
        db == Database_fetch_one_db(sql, routesT)
    IN  IF result.kind # "ok"
        THEN [kind |-> "ok", val |-> TRUE, db |-> db]
        ELSE [kind |-> "ok",
              val |-> IF result.val # None THEN result.val[1].result ELSE TRUE,
              db |-> db]

RouteRepository_update_geometry(routesT, route_id, coordinates) ==
    LET sql == fn_update_route_geometry(routesT, route_id, coordinates)
        result == BaseRepository_execute_query(sql, TRUE)
        db == Database_fetch_one_db(sql, routesT)
    IN  IF result.kind # "ok"
        THEN [kind |-> result.kind, val |-> FALSE, db |-> db]
        ELSE [kind |-> "ok",
              val |-> IF result.val # None THEN result.val[1].result ELSE TRUE,
              db |-> db]

\* Mutation: the name is written, and committed, before the geometry is
\* replaced.
RouteRepository_update_NameFirst(routesT, route_id, entity) ==
    LET named == IF entity.name # None
                 THEN Database_execute(
                          UpdateRouteName(routesT, route_id, entity.name[1]),
                          routesT)
                 ELSE [kind |-> "ok", db |-> routesT]
    IN  IF named.kind # "ok"
        THEN [kind |-> named.kind, val |-> None, db |-> named.db]
        ELSE LET geometry == IF entity.coordinates # None
                             THEN RouteRepository_update_geometry(named.db,
                                      route_id, entity.coordinates[1])
                             ELSE [kind |-> "ok", val |-> TRUE, db |-> named.db]
             IN  IF geometry.kind # "ok"
                 THEN [kind |-> geometry.kind, val |-> None, db |-> geometry.db]
                 ELSE LET route == RouteRepository_get_by_id(geometry.db,
                                                             route_id)
                      IN  [kind |-> route.kind, val |-> route.val,
                           db |-> geometry.db]

\* entity = [name, coordinates], each None when the key is absent.
RouteRepository_update(routesT, route_id, entity) ==
    LET geometry == IF entity.coordinates # None
                    THEN RouteRepository_update_geometry(routesT, route_id,
                             entity.coordinates[1])
                    ELSE [kind |-> "ok", val |-> TRUE, db |-> routesT]
    IN  IF geometry.kind # "ok"
        THEN [kind |-> geometry.kind, val |-> None, db |-> geometry.db]
        ELSE LET named == IF entity.name # None
                          THEN Database_execute(
                                   UpdateRouteName(geometry.db, route_id,
                                                   entity.name[1]), geometry.db)
                          ELSE [kind |-> "ok", db |-> geometry.db]
             IN  IF named.kind # "ok"
                 THEN [kind |-> named.kind, val |-> None, db |-> named.db]
                 ELSE LET route == RouteRepository_get_by_id(named.db, route_id)
                      IN  [kind |-> route.kind, val |-> route.val,
                           db |-> named.db]

RouteRepository_delete(routesT, route_id) ==
    LET done == Database_execute(DeleteRoute(routesT, route_id), routesT)
    IN  [kind |-> "ok", val |-> done.kind = "ok", db |-> done.db]

RouteRepository_get_stops_on_route(rsT, route_id) ==
    BaseRepository_execute_query(fn_get_stops_on_route(rsT, route_id), FALSE)

\* result.get('result', False) if result else True
BooleanResult(result) ==
    IF result.val # None THEN result.val[1].result ELSE TRUE

RouteRepository_add_stop_to_route(rsT, routesT, stopsT, route_id, stop_id, sequence) ==
    LET sql == fn_add_stop_to_route(rsT, routesT, stopsT, route_id, stop_id,
                                    sequence)
        result == BaseRepository_execute_query(sql, TRUE)
        db == Database_fetch_one_db(sql, rsT)
    IN  IF result.kind # "ok"
        THEN [kind |-> result.kind, val |-> FALSE, db |-> db]
        ELSE [kind |-> "ok", val |-> BooleanResult(result), db |-> db]

RouteRepository_remove_stop_from_route(rsT, route_id, stop_id) ==
    LET sql == fn_remove_stop_from_route(rsT, route_id, stop_id)
        result == BaseRepository_execute_query(sql, TRUE)
        db == Database_fetch_one_db(sql, rsT)
    IN  IF result.kind # "ok"
        THEN [kind |-> result.kind, val |-> FALSE, db |-> db]
        ELSE [kind |-> "ok", val |-> BooleanResult(result), db |-> db]

RouteRepository_reorder_route_stops(rsT, route_id, stop_sequences) ==
    LET sql == fn_reorder_route_stops(rsT, route_id, stop_sequences)
        result == BaseRepository_execute_query(sql, TRUE)
        db == Database_fetch_one_db(sql, rsT)
    IN  IF result.kind # "ok"
        THEN [kind |-> result.kind, val |-> FALSE, db |-> db]
        ELSE [kind |-> "ok", val |-> BooleanResult(result), db |-> db]

(***************************************************************************)
(* repositories/bus_repository.py                                          *)
(***************************************************************************)
BusRepository_find_nearest_bus(busesT, latitude, longitude, route_id, limit) ==
    BaseRepository_execute_query(
        fn_find_nearest_bus(busesT, latitude, longitude, route_id, limit), FALSE)

BusRepository_get_all(busesT, cursor, limit, include_inactive) ==
    BaseRepository_execute_query(
        fn_get_all_buses(busesT, cursor, limit, include_inactive), FALSE)

BusRepository_get_active_buses(busesT, cursor, limit) ==
    BusRepository_get_all(busesT, cursor, limit, FALSE)

\* BaseRepository.exists
BusRepository_exists(busesT, bus_id) ==
    LET result == BaseRepository_execute_query(
                      SelectBusExists(busesT, bus_id), TRUE)
    IN  IF result.kind # "ok" THEN result
        ELSE [kind |-> "ok",
              val |-> IF result.val # None THEN result.val[1].exists ELSE FALSE]

BusRepository_get_by_id(busesT, bus_id) ==
    BaseRepository_execute_query(fn_get_bus_by_id(busesT, bus_id), TRUE)

BusRepository_update(busesT, bus_id, entity) ==
    IF entity.route_id = None /\ entity.status = None
    THEN LET bus == BusRepository_get_by_id(busesT, bus_id)
         IN  [kind |-> bus.kind, val |-> bus.val, db |-> busesT]
    ELSE LET done == Database_execute(UpdateBus(busesT, bus_id, entity), busesT)
             bus == BusRepository_get_by_id(done.db, bus_id)
         IN  IF done.kind # "ok"
             THEN [kind |-> done.kind, val |-> None, db |-> done.db]
             ELSE [kind |-> bus.kind, val |-> bus.val, db |-> done.db]

\* result.get('result', False) if result else False
BusRepository_update_status(busesT, bus_id, status) ==
    LET sql == fn_update_bus_status(busesT, bus_id, status)
        result == BaseRepository_execute_query(sql, TRUE)
        db == Database_fetch_one_db(sql, busesT)
    IN  IF result.kind # "ok"
        THEN [kind |-> result.kind, val |-> FALSE, db |-> db]
        ELSE [kind |-> "ok",
              val |-> IF result.val # None THEN result.val[1].result ELSE FALSE,
              db |-> db]

BusRepository_update_location(busesT, bus_id, latitude, longitude) ==
    LET sql == fn_update_bus_location(busesT, bus_id, latitude, longitude)
        result == BaseRepository_execute_query(sql, TRUE)
        db == Database_fetch_one_db(sql, busesT)
    IN  IF result.kind # "ok"
        THEN [kind |-> result.kind, val |-> FALSE, db |-> db]
        ELSE [kind |-> "ok", val |-> BooleanResult(result), db |-> db]

BusRepository_delete(busesT, bus_id) ==
    LET done == Database_execute(DeleteBus(busesT, bus_id), busesT)
    IN  [kind |-> "ok", val |-> done.kind = "ok", db |-> done.db]

BusRepository_is_bus_on_route(busesT, routesT, bus_id, tolerance_meters) ==
    LET result == BaseRepository_execute_query(
                      fn_is_bus_on_route(busesT, routesT, bus_id,
                                         tolerance_meters), TRUE)
    IN  IF result.kind # "ok" THEN result
        ELSE [kind |-> "ok",
              val |-> IF result.val # None THEN result.val[1].result ELSE FALSE]

(***************************************************************************)
(* services/route/route_service.py                                         *)
(***************************************************************************)
\* Mutation: the radius check is off by one (radius_meters < 0).
RouteService_find_nearest_stops_RadiusOffByOne(stopsT, latitude, longitude, radius_meters, limit) ==
    IF radius_meters < MinRadius - 1
    THEN Raise("ValueError", "RadiusTooSmall", 0)
    ELSE IF limit < MinLimit THEN Raise("ValueError", "LimitTooSmall", 0)
    ELSE LET r == RouteRepository_find_nearest_stops(stopsT, latitude,
                      longitude, radius_meters, limit)
         IN  IF r.kind # "ok" THEN Raise(r.kind, "QueryFailed", 1)
             ELSE Return(r.val, FALSE, 0, 1)

RouteService_find_nearest_stops(stopsT, latitude, longitude, radius_meters, limit) ==
    IF radius_meters < MinRadius THEN Raise("ValueError", "RadiusTooSmall", 0)
    ELSE IF limit < MinLimit THEN Raise("ValueError", "LimitTooSmall", 0)
    ELSE LET r == RouteRepository_find_nearest_stops(stopsT, latitude,
                      longitude, radius_meters, limit)
         IN  IF r.kind # "ok" THEN Raise(r.kind, "QueryFailed", 1)
             ELSE Return(r.val, FALSE, 0, 1)

\* Mutation: the upper radius check is inclusive (radius_meters >= 10000).
RouteService_find_routes_near_location_MaxInclusive(routesT, latitude, longitude, radius_meters) ==
    IF radius_meters < MinRadius THEN Raise("ValueError", "RadiusTooSmall", 0)
    ELSE IF radius_meters >= MaxRouteRadius
         THEN Raise("ValueError", "RadiusTooLarge", 0)
    ELSE LET r == RouteRepository_find_routes_near_location(routesT, latitude,
                      longitude, radius_meters)
         IN  IF r.kind # "ok" THEN Raise(r.kind, "QueryFailed", 1)
             ELSE Return(r.val, FALSE, 0, 1)

RouteService_find_routes_near_location(routesT, latitude, longitude, radius_meters) ==
    IF radius_meters < MinRadius THEN Raise("ValueError", "RadiusTooSmall", 0)
    ELSE IF radius_meters > MaxRouteRadius
         THEN Raise("ValueError", "RadiusTooLarge", 0)
    ELSE LET r == RouteRepository_find_routes_near_location(routesT, latitude,
                      longitude, radius_meters)
         IN  IF r.kind # "ok" THEN Raise(r.kind, "QueryFailed", 1)
             ELSE Return(r.val, FALSE, 0, 1)

RouteService_is_point_on_route(routesT, route_id, latitude, longitude, tolerance_meters) ==
    LET route == RouteRepository_get_by_id(routesT, route_id)
    IN  IF route.kind # "ok" THEN Raise(route.kind, "QueryFailed", 1)
        ELSE IF route.val = None THEN Raise("ValueError", "RouteNotFound", 1)
        ELSE LET r == RouteRepository_is_point_on_route(routesT, route_id,
                          latitude, longitude, tolerance_meters)
             IN  IF r.kind # "ok" THEN Raise(r.kind, "QueryFailed", 2)
                 ELSE Return(<<>>, r.val, 0, 2)

RouteService_get_route_length(routesT, route_id) ==
    LET route == RouteRepository_get_by_id(routesT, route_id)
    IN  IF route.kind # "ok" THEN Raise(route.kind, "QueryFailed", 1)
        ELSE IF route.val = None THEN Raise("ValueError", "RouteNotFound", 1)
        ELSE LET r == RouteRepository_get_route_length(routesT, route_id)
             IN  IF r.kind # "ok" THEN Raise(r.kind, "QueryFailed", 2)
                 ELSE Return(<<>>, FALSE, r.val, 2)

\* The services that write return out, the outcome of the call, and db, the
\* committed table once the call is over.
Done(out, db) == [out |-> out, db |-> db]

\* A Python Optional as the rows of an outcome.
OptRows(v) == IF v = None THEN <<>> ELSE <<v[1]>>

\* str.strip() on a name held as a sequence of characters.
RECURSIVE lstrip(_)
lstrip(name) ==
    IF name # <<>> /\ Head(name) = " " THEN lstrip(Tail(name)) ELSE name

RECURSIVE rstrip(_)
rstrip(name) ==
    IF name # <<>> /\ name[Len(name)] = " "
    THEN rstrip(SubSeq(name, 1, Len(name) - 1))
    ELSE name

strip(name) == rstrip(lstrip(name))

RouteService_create(routesT, name, coordinates) ==
    IF Len(strip(name)) < MinNameLen
    THEN Done(Raise("ValueError", "NameTooShort", 0), routesT)
    ELSE LET existing == RouteRepository_get_by_name(routesT, strip(name))
         IN  IF existing.kind # "ok"
             THEN Done(Raise(existing.kind, "QueryFailed", 1), routesT)
             ELSE IF existing.val # None
             THEN Done(Raise("ValueError", "DuplicateName", 1), routesT)
             ELSE LET r == RouteRepository_create(routesT,
                               [name |-> strip(name),
                                coordinates |-> coordinates])
                  IN  IF r.kind # "ok"
                      THEN Done(Raise(r.kind, "QueryFailed", 2), r.db)
                      ELSE Done(Return(OptRows(r.val), r.val # None, 0, 2), r.db)

RouteService_update(routesT, route_id, name, coordinates) ==
    LET route == RouteRepository_get_by_id(routesT, route_id)
    IN  IF route.kind # "ok"
        THEN Done(Raise(route.kind, "QueryFailed", 1), routesT)
        ELSE IF route.val = None
        THEN Done(Raise("ValueError", "RouteNotFound", 1), routesT)
        ELSE IF name # None /\ Len(strip(name[1])) < MinNameLen
        THEN Done(Raise("ValueError", "NameTooShort", 1), routesT)
        ELSE LET existing == IF name = None THEN [kind |-> "ok", val |-> None]
                             ELSE RouteRepository_get_by_name(routesT,
                                                              strip(name[1]))
             IN  IF existing.kind # "ok"
                 THEN Done(Raise(existing.kind, "QueryFailed", 2), routesT)
                 ELSE IF existing.val # None /\ existing.val[1].id # route_id
                 THEN Done(Raise("ValueError", "DuplicateName", 2), routesT)
                 ELSE IF name = None /\ coordinates = None
                 THEN Done(Return(OptRows(route.val), TRUE, 0, 1), routesT)
                 ELSE LET r == RouteRepository_update(routesT, route_id,
                                   [name |-> IF name = None THEN None
                                             ELSE Some(strip(name[1])),
                                    coordinates |-> coordinates])
                      IN  IF r.kind # "ok"
                          THEN Done(Raise(r.kind, "QueryFailed", 3), r.db)
                          ELSE Done(Return(OptRows(r.val), r.val # None, 0, 3),
                                    r.db)

RouteService_update_geometry(routesT, route_id, coordinates) ==
    LET route == RouteRepository_get_by_id(routesT, route_id)
    IN  IF route.kind # "ok"
        THEN Done(Raise(route.kind, "QueryFailed", 1), routesT)
        ELSE IF route.val = None
        THEN Done(Raise("ValueError", "RouteNotFound", 1), routesT)
        ELSE LET r == RouteRepository_update_geometry(routesT, route_id,
                          coordinates)
             IN  IF r.kind # "ok"
                 THEN Done(Raise(r.kind, "QueryFailed", 2), r.db)
                 ELSE IF ~r.val
                 THEN Done(Raise("ValueError", "UpdateFailed", 2), r.db)
                 ELSE Done(Return(<<>>, TRUE, 0, 2), r.db)

RouteService_delete(routesT, route_id) ==
    LET route == RouteRepository_get_by_id(routesT, route_id)
    IN  IF route.kind # "ok"
        THEN Done(Raise(route.kind, "QueryFailed", 1), routesT)
        ELSE IF route.val = None
        THEN Done(Raise("ValueError", "RouteNotFound", 1), routesT)
        ELSE LET r == RouteRepository_delete(routesT, route_id)
             IN  IF ~r.val
                 THEN Done(Raise("ValueError", "DeleteFailed", 2), r.db)
                 ELSE Done(Return(<<>>, TRUE, 0, 2), r.db)

RouteService_get_stops_on_route(rsT, routesT, route_id) ==
    LET route == RouteRepository_get_by_id(routesT, route_id)
    IN  IF route.kind # "ok" THEN Raise(route.kind, "QueryFailed", 1)
        ELSE IF route.val = None THEN Raise("ValueError", "RouteNotFound", 1)
        ELSE LET r == RouteRepository_get_stops_on_route(rsT, route_id)
             IN  IF r.kind # "ok" THEN Raise(r.kind, "QueryFailed", 2)
                 ELSE Return(r.val, FALSE, 0, 2)

\* What a stop-management call of the service makes of its repository call.
StopManagementDone(r, failed) ==
    IF r.kind # "ok" THEN Done(Raise(r.kind, "QueryFailed", 2), r.db)
    ELSE IF ~r.val THEN Done(Raise("ValueError", failed, 2), r.db)
    ELSE Done(Return(<<>>, TRUE, 0, 2), r.db)

RouteService_add_stop_to_route(rsT, routesT, stopsT, route_id, stop_id, sequence) ==
    LET route == RouteRepository_get_by_id(routesT, route_id)
    IN  IF route.kind # "ok" THEN Done(Raise(route.kind, "QueryFailed", 1), rsT)
        ELSE IF route.val = None
        THEN Done(Raise("ValueError", "RouteNotFound", 1), rsT)
        ELSE StopManagementDone(
                 RouteRepository_add_stop_to_route(rsT, routesT, stopsT,
                     route_id, stop_id, sequence), "AddFailed")

RouteService_remove_stop_from_route(rsT, routesT, route_id, stop_id) ==
    LET route == RouteRepository_get_by_id(routesT, route_id)
    IN  IF route.kind # "ok" THEN Done(Raise(route.kind, "QueryFailed", 1), rsT)
        ELSE IF route.val = None
        THEN Done(Raise("ValueError", "RouteNotFound", 1), rsT)
        ELSE StopManagementDone(
                 RouteRepository_remove_stop_from_route(rsT, route_id, stop_id),
                 "RemoveFailed")

RouteService_reorder_route_stops(rsT, routesT, route_id, stop_sequences) ==
    LET route == RouteRepository_get_by_id(routesT, route_id)
    IN  IF route.kind # "ok" THEN Done(Raise(route.kind, "QueryFailed", 1), rsT)
        ELSE IF route.val = None
        THEN Done(Raise("ValueError", "RouteNotFound", 1), rsT)
        ELSE StopManagementDone(
                 RouteRepository_reorder_route_stops(rsT, route_id,
                                                     stop_sequences),
                 "ReorderFailed")

(***************************************************************************)
(* services/bus/bus_service.py                                             *)
(***************************************************************************)
BusService_find_nearest_buses(busesT, latitude, longitude, route_id, limit) ==
    LET r == BusRepository_find_nearest_bus(busesT, latitude, longitude,
                                            route_id, limit)
    IN  IF r.kind # "ok" THEN Raise(r.kind, "QueryFailed", 1)
        ELSE Return(r.val, FALSE, 0, 1)

\* [BusResponse(**e) for e in entities]
BusService_get_all(busesT, cursor, limit, include_inactive) ==
    LET r == BusRepository_get_all(busesT, cursor, limit, include_inactive)
    IN  IF r.kind # "ok" THEN Raise(r.kind, "QueryFailed", 1)
        ELSE Return(r.val, FALSE, 0, 1)

BusService_get_all_active(busesT, cursor, limit) ==
    LET r == BusRepository_get_active_buses(busesT, cursor, limit)
    IN  IF r.kind # "ok" THEN Raise(r.kind, "QueryFailed", 1)
        ELSE Return(r.val, FALSE, 0, 1)

BusService_update(busesT, bus_id, bus_data) ==
    LET found == BusRepository_exists(busesT, bus_id)
    IN  IF found.kind # "ok"
        THEN Done(Raise(found.kind, "QueryFailed", 1), busesT)
        ELSE IF ~found.val
        THEN Done(Raise("ValueError", "BusNotFound", 1), busesT)
        ELSE LET r == BusRepository_update(busesT, bus_id, bus_data)
             IN  IF r.kind # "ok"
                 THEN Done(Raise(r.kind, "QueryFailed", 2), r.db)
                 ELSE Done(Return(OptRows(r.val), FALSE, 0, 2), r.db)

BusService_update_status(busesT, bus_id, status) ==
    LET found == BusRepository_exists(busesT, bus_id)
    IN  IF found.kind # "ok"
        THEN Done(Raise(found.kind, "QueryFailed", 1), busesT)
        ELSE IF ~found.val
        THEN Done(Raise("ValueError", "BusNotFound", 1), busesT)
        ELSE LET r == BusRepository_update_status(busesT, bus_id, status)
             IN  IF r.kind # "ok"
                 THEN Done(Raise(r.kind, "QueryFailed", 2), r.db)
                 ELSE Done(Return(<<>>, r.val, 0, 2), r.db)

BusService_update_location(busesT, bus_id, latitude, longitude) ==
    LET bus == BusRepository_get_by_id(busesT, bus_id)
    IN  IF bus.kind # "ok"
        THEN Done(Raise(bus.kind, "QueryFailed", 1), busesT)
        ELSE IF bus.val = None
        THEN Done(Raise("ValueError", "BusNotFound", 1), busesT)
        ELSE IF bus.val[1].status # "Active"
        THEN Done(Raise("ValueError", "BusNotActive", 1), busesT)
        ELSE LET r == BusRepository_update_location(busesT, bus_id, latitude,
                                                    longitude)
             IN  IF r.kind # "ok"
                 THEN Done(Raise(r.kind, "QueryFailed", 2), r.db)
                 ELSE Done(Return(<<>>, r.val, 0, 2), r.db)

BusService_delete(busesT, bus_id) ==
    LET found == BusRepository_exists(busesT, bus_id)
    IN  IF found.kind # "ok"
        THEN Done(Raise(found.kind, "QueryFailed", 1), busesT)
        ELSE IF ~found.val
        THEN Done(Raise("ValueError", "BusNotFound", 1), busesT)
        ELSE LET r == BusRepository_delete(busesT, bus_id)
             IN  Done(Return(<<>>, r.val, 0, 2), r.db)

BusService_is_bus_on_route(busesT, routesT, bus_id, tolerance_meters) ==
    LET found == BusRepository_exists(busesT, bus_id)
    IN  IF found.kind # "ok" THEN Raise(found.kind, "QueryFailed", 1)
        ELSE IF ~found.val THEN Raise("ValueError", "BusNotFound", 1)
        ELSE LET r == BusRepository_is_bus_on_route(busesT, routesT, bus_id,
                                                    tolerance_meters)
             IN  IF r.kind # "ok" THEN Raise(r.kind, "QueryFailed", 2)
                 ELSE Return(<<>>, r.val, 0, 2)

(***************************************************************************)
(* Requests and responses.  request holds the raw query parameters of the  *)
(* request being served (op = "idle" between requests); response holds     *)
(* what the controller answered.                                           *)
(***************************************************************************)
Idle ==
    [op |-> "idle", lat |-> None, lon |-> None, radius |-> None,
     limit |-> None, tol |-> None, id |-> 0, route |-> None,
     name |-> None, coords |-> None, stop |-> 0, seq |-> None, seqs |-> None,
     body |-> None]

NoResponse ==
    [kind |-> "none", err |-> "", status |-> 0, rows |-> <<>>,
     flag |-> FALSE, num |-> 0, calls |-> 0]

\* The requests served concurrently.
ConcurrentRequests == {1, 2}

IdleThread ==
    [op |-> "idle", pc |-> "idle", id |-> 0, lat |-> 0, lon |-> 0, tol |-> 0,
     seqs |-> None, name |-> <<>>, coords |-> <<>>, out |-> NoResponse,
     seen |-> {}]

NoThreads == [t \in ConcurrentRequests |-> IdleThread]

\* request.args.get(name, default, type=...)
ArgsGet(q, default) == IF q = None THEN default ELSE q[1]

\* Coordinates no place on Earth has.
OutOfRangeInputs ==
    {<<Some(MaxLatitude + 1), Some(0)>>, <<Some(0), Some(-(MaxLongitude + 1))>>}

OriginInputs ==
    {<<Some(p.lat), Some(p.lon)>> : p \in Points}
        \cup {<<None, Some(0)>>, <<Some(0), None>>}
        \cup OutOfRangeInputs
StopRadiusInputs == OptOf({0, 1, 100})
LimitInputs == OptOf({-1, 0, 1, 2})
RouteRadiusInputs == OptOf({0, 1, 10000, 10001})
ToleranceInputs == OptOf({0, 50})
RouteIdInputs == {1, 2}
RouteFilterInputs == OptOf({1})
RouteNames == {<<"R", "0", "1">>, <<"R", "0", "2">>, <<"a", "b">>}
NameInputs == OptOf(RouteNames)
CoordinateInputs == OptOf(UNION {[1..k -> Points] : k \in 0..MinPathLen})
StopIdInputs == 1..(MaxStops + 1)
SequenceInputs == OptOf(0..(MaxStops - 1))
StopSequencesInputs ==
    OptOf(UNION {[S -> 0..(MaxStops - 1)] : S \in (SUBSET (1..MaxStops)) \ {{}}})
BusIdInputs == 1..(MaxBuses + 1)

\* The JSON bodies of a bus update: the keys route_id (null, or the id of a
\* route) and status, each present or not.
BusUpdateInputs ==
    OptOf([route_id : OptOf({None} \cup {Some(r) : r \in DOMAIN routes}),
           status : OptOf({"Active", "Inactive"})])

\* The JSON bodies of a location update: none, a position, or a position
\* PointSchema refuses.
LocationInputs ==
    OptOf(Points \cup {Origin(MaxLatitude + 1, 0), Origin(0, MaxLongitude + 1)})

\* The JSON bodies of a status update: none, a status, or a word
\* BusStatusUpdate refuses.
StatusInputs == OptOf({"Active", "Inactive", "Broken"})
BusStatuses == {"Active", "Inactive", "Maintenance", "Retired"}

\* ErrorResponse.fail("latitude and longitude are required")
MissingParam ==
    [kind |-> "fail", err |-> "MissingParam", status |-> HttpFail,
     rows |-> <<>>, flag |-> FALSE, num |-> 0, calls |-> 0]

\* try: ... success / except ValueError: fail / except Exception: error
RouteControllerResponse(out) ==
    [kind |-> out.kind, err |-> out.err,
     status |-> IF out.kind = "ok" THEN HttpOk
                ELSE IF out.kind = "ValueError" THEN HttpFail ELSE HttpError,
     rows |-> out.rows, flag |-> out.flag, num |-> out.num,
     calls |-> out.calls]

\* try: ... success / except Exception: error
BusControllerResponse(out) ==
    [kind |-> out.kind, err |-> out.err,
     status |-> IF out.kind = "ok" THEN HttpOk ELSE HttpError,
     rows |-> out.rows, flag |-> out.flag, num |-> out.num,
     calls |-> out.calls]

(***************************************************************************)
(* controllers/route_controller.py                                         *)
(***************************************************************************)
stop_api_find_nearest_stops ==
    /\ request.op = "idle"
    /\ \E o \in OriginInputs, qradius \in StopRadiusInputs, qlimit \in LimitInputs :
         LET radius_meters == ArgsGet(qradius, DefaultStopRadius)
             limit == ArgsGet(qlimit, DefaultStopLimit)
         IN  /\ request' = [Idle EXCEPT !.op = "find_nearest_stops",
                                !.lat = o[1], !.lon = o[2],
                                !.radius = qradius, !.limit = qlimit]
             /\ response' =
                  IF o[1] = None \/ o[2] = None THEN MissingParam
                  ELSE RouteControllerResponse(
                           RouteService_find_nearest_stops(stops, o[1][1],
                               o[2][1], radius_meters, limit))
    /\ UNCHANGED <<tables, threads, pool>>

route_api_find_routes_near_location ==
    /\ request.op = "idle"
    /\ \E o \in OriginInputs, qradius \in RouteRadiusInputs :
         LET radius_meters == ArgsGet(qradius, DefaultRouteRadius)
         IN  /\ request' = [Idle EXCEPT !.op = "find_routes_near_location",
                                !.lat = o[1], !.lon = o[2], !.radius = qradius]
             /\ response' =
                  IF o[1] = None \/ o[2] = None THEN MissingParam
                  ELSE RouteControllerResponse(
                           RouteService_find_routes_near_location(routes,
                               o[1][1], o[2][1], radius_meters))
    /\ UNCHANGED <<tables, threads, pool>>

route_api_check_point_on_route ==
    /\ request.op = "idle"
    /\ \E route_id \in RouteIdInputs, o \in OriginInputs, qtol \in ToleranceInputs :
         LET tolerance_meters == ArgsGet(qtol, DefaultTolerance)
         IN  /\ request' = [Idle EXCEPT !.op = "check_point_on_route",
                                !.id = route_id, !.lat = o[1], !.lon = o[2],
                                !.tol = qtol]
             /\ response' =
                  IF o[1] = None \/ o[2] = None THEN MissingParam
                  ELSE RouteControllerResponse(
                           RouteService_is_point_on_route(routes, route_id,
                               o[1][1], o[2][1], tolerance_meters))
    /\ UNCHANGED <<tables, threads, pool>>

route_api_get_route_length ==
    /\ request.op = "idle"
    /\ \E route_id \in RouteIdInputs :
         /\ request' = [Idle EXCEPT !.op = "get_route_length", !.id = route_id]
         /\ response' = RouteControllerResponse(
                            RouteService_get_route_length(routes, route_id))
    /\ UNCHANGED <<tables, threads, pool>>

\* ErrorResponse.fail("... is required"): a key of the JSON body is missing
\* or empty.
MissingBody ==
    [kind |-> "fail", err |-> "MissingBody", status |-> HttpFail,
     rows |-> <<>>, flag |-> FALSE, num |-> 0, calls |-> 0]

\* The write endpoints are served to an authenticated administrator.
route_api_create_route ==
    /\ request.op = "idle"
    /\ \E qname \in NameInputs, qcoords \in CoordinateInputs :
         LET missing == qname = None \/ qcoords = None \/ qcoords = Some(<<>>)
             done == RouteService_create(routes, qname[1], qcoords[1])
             answer == RouteControllerResponse(done.out)
         IN  /\ request' = [Idle EXCEPT !.op = "create_route",
                                !.name = qname, !.coords = qcoords]
             /\ response' =
                  IF missing THEN MissingBody
                  ELSE IF done.out.kind = "ok" /\ done.out.rows = <<>>
                  THEN [answer EXCEPT !.kind = "AttributeError",
                                      !.status = HttpError]
                  ELSE IF done.out.kind = "ok"
                  THEN [answer EXCEPT !.status = HttpCreated]
                  ELSE answer
             /\ routes' = IF missing THEN routes ELSE done.db
    /\ UNCHANGED <<stops, buses, routestops, threads, pool>>

route_api_update_route ==
    /\ request.op = "idle"
    /\ \E route_id \in RouteIdInputs, qname \in NameInputs,
          qcoords \in CoordinateInputs :
         LET missing == qname = None /\ qcoords = None
             done == RouteService_update(routes, route_id, qname, qcoords)
         IN  /\ request' = [Idle EXCEPT !.op = "update_route", !.id = route_id,
                                !.name = qname, !.coords = qcoords]
             /\ response' = IF missing THEN MissingBody
                            ELSE RouteControllerResponse(done.out)
             /\ routes' = IF missing THEN routes ELSE done.db
    /\ UNCHANGED <<stops, buses, routestops, threads, pool>>

route_api_update_route_geometry ==
    /\ request.op = "idle"
    /\ \E route_id \in RouteIdInputs, qcoords \in CoordinateInputs :
         LET missing == qcoords = None
             done == RouteService_update_geometry(routes, route_id, qcoords[1])
         IN  /\ request' = [Idle EXCEPT !.op = "update_route_geometry",
                                !.id = route_id, !.coords = qcoords]
             /\ response' = IF missing THEN MissingBody
                            ELSE RouteControllerResponse(done.out)
             /\ routes' = IF missing THEN routes ELSE done.db
    /\ UNCHANGED <<stops, buses, routestops, threads, pool>>

route_api_delete_route ==
    /\ request.op = "idle"
    /\ \E route_id \in RouteIdInputs :
         LET done == RouteService_delete(routes, route_id)
         IN  /\ request' = [Idle EXCEPT !.op = "delete_route", !.id = route_id]
             /\ response' = RouteControllerResponse(done.out)
             /\ routes' = done.db
    /\ UNCHANGED <<stops, buses, routestops, threads, pool>>

route_api_get_route_stops ==
    /\ request.op = "idle"
    /\ \E route_id \in RouteIdInputs :
         /\ request' = [Idle EXCEPT !.op = "get_route_stops", !.id = route_id]
         /\ response' = RouteControllerResponse(
                            RouteService_get_stops_on_route(routestops, routes,
                                                            route_id))
    /\ UNCHANGED <<tables, threads, pool>>

route_api_add_stop_to_route ==
    /\ request.op = "idle"
    /\ \E route_id \in RouteIdInputs, stop_id \in StopIdInputs,
          qseq \in SequenceInputs :
         LET sequence == ArgsGet(qseq, DefaultSequence)
             done == RouteService_add_stop_to_route(routestops, routes, stops,
                         route_id, stop_id, sequence)
         IN  /\ request' = [Idle EXCEPT !.op = "add_stop_to_route",
                                !.id = route_id, !.stop = stop_id, !.seq = qseq]
             /\ response' = RouteControllerResponse(done.out)
             /\ routestops' = done.db
    /\ UNCHANGED <<stops, routes, buses, threads, pool>>

route_api_remove_stop_from_route ==
    /\ request.op = "idle"
    /\ \E route_id \in RouteIdInputs, stop_id \in StopIdInputs :
         LET done == RouteService_remove_stop_from_route(routestops, routes,
                         route_id, stop_id)
         IN  /\ request' = [Idle EXCEPT !.op = "remove_stop_from_route",
                                !.id = route_id, !.stop = stop_id]
             /\ response' = RouteControllerResponse(done.out)
             /\ routestops' = done.db
    /\ UNCHANGED <<stops, routes, buses, threads, pool>>

route_api_reorder_route_stops ==
    /\ request.op = "idle"
    /\ \E route_id \in RouteIdInputs, qseqs \in StopSequencesInputs :
         LET missing == qseqs = None
             done == RouteService_reorder_route_stops(routestops, routes,
                         route_id, qseqs[1])
         IN  /\ request' = [Idle EXCEPT !.op = "reorder_route_stops",
                                !.id = route_id, !.seqs = qseqs]
             /\ response' = IF missing THEN MissingBody
                            ELSE RouteControllerResponse(done.out)
             /\ routestops' = IF missing THEN routestops ELSE done.db
    /\ UNCHANGED <<stops, routes, buses, threads, pool>>

(***************************************************************************)
(* controllers/bus_controller.py                                           *)
(***************************************************************************)
bus_api_find_nearest_buses ==
    /\ request.op = "idle"
    /\ \E o \in OriginInputs, qroute \in RouteFilterInputs, qlimit \in LimitInputs :
         LET limit == ArgsGet(qlimit, DefaultBusLimit)
         IN  /\ request' = [Idle EXCEPT !.op = "find_nearest_buses",
                                !.lat = o[1], !.lon = o[2], !.route = qroute,
                                !.limit = qlimit]
             /\ response' =
                  IF o[1] = None \/ o[2] = None THEN MissingParam
                  ELSE BusControllerResponse(
                           BusService_find_nearest_buses(buses, o[1][1],
                               o[2][1], qroute, limit))
    /\ UNCHANGED <<tables, threads, pool>>

\* The cursor and limit of a page request.  request.args.get('cursor',
\* type=int) or None: a cursor of 0 is no cursor.
CursorInputs == OptOf(0..MaxBuses)
PageLimitInputs == OptOf({1, 2})
PageCursor(qcursor) == IF qcursor = Some(0) THEN None ELSE qcursor

\* has_next = len(buses) > limit; next_cursor = buses[-1].bus_id; the page
\* is buses[:-1] when has_next.  rows is the page, flag has_next, num the
\* next cursor (0 for None).
PageResponse(out, limit) ==
    LET answer == BusControllerResponse(out)
        has_next == Len(out.rows) > limit
    IN  IF out.kind # "ok" THEN answer
        ELSE [answer EXCEPT
                 !.flag = has_next,
                 !.num = IF has_next THEN out.rows[Len(out.rows)].bus_id ELSE 0,
                 !.rows = IF has_next
                          THEN SubSeq(out.rows, 1, Len(out.rows) - 1)
                          ELSE out.rows]

bus_api_get_active_buses ==
    /\ request.op = "idle"
    /\ \E qcursor \in CursorInputs, qlimit \in PageLimitInputs :
         LET cursor == PageCursor(qcursor)
             limit == ArgsGet(qlimit, DefaultPageLimit)
         IN  /\ request' = [Idle EXCEPT !.op = "get_active_buses",
                                !.limit = qlimit,
                                !.body = Some([cursor |-> qcursor,
                                               include_inactive |-> FALSE])]
             /\ response' = PageResponse(
                                BusService_get_all_active(buses, cursor,
                                                          limit + 1), limit)
    /\ UNCHANGED <<tables, threads, pool>>

bus_api_get_all_buses ==
    /\ request.op = "idle"
    /\ \E qcursor \in CursorInputs, qlimit \in PageLimitInputs,
          include_inactive \in BOOLEAN :
         LET cursor == PageCursor(qcursor)
             limit == ArgsGet(qlimit, DefaultPageLimit)
         IN  /\ request' = [Idle EXCEPT !.op = "get_all_buses",
                                !.limit = qlimit,
                                !.body = Some([cursor |-> qcursor,
                                               include_inactive |->
                                                   include_inactive])]
             /\ response' = PageResponse(
                                BusService_get_all(buses, cursor, limit + 1,
                                                   include_inactive), limit)
    /\ UNCHANGED <<tables, threads, pool>>

\* The requests in service have lived through the committed tables db.
Observed(db) ==
    [t \in ConcurrentRequests |->
        IF threads[t].pc \in {"idle", "done"} THEN threads[t]
        ELSE [threads[t] EXCEPT !.seen = @ \cup {db}]]

\* try: ... success / except ValueError: fail / except Exception: error
BusWriteControllerResponse(out) ==
    [kind |-> out.kind, err |-> out.err,
     status |-> IF out.kind = "ok" THEN HttpOk
                ELSE IF out.kind = "ValueError" THEN HttpFail ELSE HttpError,
     rows |-> out.rows, flag |-> out.flag, num |-> out.num,
     calls |-> out.calls]

\* Served to an authenticated administrator.  A body without keys is "not
\* data".
bus_api_update_bus ==
    /\ request.op = "idle"
    /\ \E bus_id \in BusIdInputs, data \in BusUpdateInputs :
         LET missing == data = None
                          \/ data = Some([route_id |-> None, status |-> None])
             done == BusService_update(buses, bus_id, data[1])
         IN  /\ request' = [Idle EXCEPT !.op = "update_bus", !.id = bus_id,
                                        !.body = data]
             /\ response' =
                  IF missing THEN MissingBody
                  ELSE IF done.out.kind = "ok" /\ done.out.rows = <<>>
                  THEN [BusWriteControllerResponse(done.out) EXCEPT
                           !.kind = "fail", !.err = "BusNotFound",
                           !.status = HttpNotFound]
                  ELSE BusWriteControllerResponse(done.out)
             /\ buses' = IF missing THEN buses ELSE done.db
    /\ UNCHANGED <<stops, routes, routestops, threads, pool>>

\* except ValidationError: ErrorResponse.validation_error(e)
ValidationFailed ==
    [kind |-> "ValidationError", err |-> "Validation", status |-> HttpFail,
     rows |-> <<>>, flag |-> FALSE, num |-> 0, calls |-> 0]

\* success / ErrorResponse.fail('Failed to ...') when the service returns
\* False.
BusFlagResponse(out) ==
    LET answer == BusWriteControllerResponse(out)
    IN  IF out.kind = "ok" /\ ~out.flag
        THEN [answer EXCEPT !.kind = "fail", !.err = "Failed",
                            !.status = HttpFail]
        ELSE answer

\* Served to an authenticated driver or administrator.
bus_api_update_bus_location ==
    /\ request.op = "idle"
    /\ \E bus_id \in BusIdInputs, data \in LocationInputs :
         LET missing == data = None
             invalid == data # None /\ data[1] \notin Points
             done == BusService_update_location(buses, bus_id, data[1].lat,
                                                data[1].lon)
         IN  /\ request' = [Idle EXCEPT !.op = "update_bus_location",
                                        !.id = bus_id, !.body = data]
             /\ response' = IF missing THEN MissingBody
                            ELSE IF invalid THEN ValidationFailed
                            ELSE BusFlagResponse(done.out)
             /\ buses' = IF missing \/ invalid THEN buses ELSE done.db
    /\ UNCHANGED <<stops, routes, routestops, threads, pool>>

\* Served to an authenticated administrator.
bus_api_update_bus_status ==
    /\ request.op = "idle"
    /\ \E bus_id \in BusIdInputs, data \in StatusInputs :
         LET missing == data = None
             invalid == data # None /\ data[1] \notin BusStatuses
             done == BusService_update_status(buses, bus_id, data[1])
         IN  /\ request' = [Idle EXCEPT !.op = "update_bus_status",
                                        !.id = bus_id, !.body = data]
             /\ response' = IF missing THEN MissingBody
                            ELSE IF invalid THEN ValidationFailed
                            ELSE BusFlagResponse(done.out)
             /\ buses' = IF missing \/ invalid THEN buses ELSE done.db
    /\ UNCHANGED <<stops, routes, routestops, threads, pool>>

\* Served to an authenticated administrator.
bus_api_delete_bus ==
    /\ request.op = "idle"
    /\ \E bus_id \in BusIdInputs :
         LET done == BusService_delete(buses, bus_id)
             answer == BusWriteControllerResponse(done.out)
         IN  /\ request' = [Idle EXCEPT !.op = "delete_bus", !.id = bus_id]
             /\ response' =
                  IF done.out.kind = "ok" /\ ~done.out.flag
                  THEN [answer EXCEPT !.kind = "fail", !.err = "DeleteFailed",
                                      !.status = HttpFail]
                  ELSE answer
             /\ buses' = done.db
             /\ threads' = Observed(<<stops, routes, buses', routestops>>)
    /\ UNCHANGED <<stops, routes, routestops, pool>>

\* Mutation: the check writes its finding back to the bus (a bus is marked
\* Inactive once it has been checked).
bus_api_check_bus_on_route_WritesBack ==
    /\ request.op = "idle"
    /\ \E bus_id \in BusIdInputs, qtol \in ToleranceInputs :
         LET tolerance_meters == ArgsGet(qtol, DefaultTolerance)
         IN  /\ request' = [Idle EXCEPT !.op = "check_bus_on_route",
                                        !.id = bus_id, !.tol = qtol]
             /\ response' = BusWriteControllerResponse(
                                BusService_is_bus_on_route(buses, routes,
                                    bus_id, tolerance_meters))
             /\ buses' = IF bus_id \in DOMAIN buses
                         THEN [buses EXCEPT ![bus_id].status = "Inactive"]
                         ELSE buses
    /\ UNCHANGED <<stops, routes, routestops, threads, pool>>

bus_api_check_bus_on_route ==
    /\ request.op = "idle"
    /\ \E bus_id \in BusIdInputs, qtol \in ToleranceInputs :
         LET tolerance_meters == ArgsGet(qtol, DefaultTolerance)
         IN  /\ request' = [Idle EXCEPT !.op = "check_bus_on_route",
                                        !.id = bus_id, !.tol = qtol]
             /\ response' = BusWriteControllerResponse(
                                BusService_is_bus_on_route(buses, routes,
                                    bus_id, tolerance_meters))
    /\ UNCHANGED <<tables, threads, pool>>

(***************************************************************************)
(* main.py: the application context of the request is torn down once the   *)
(* controller has returned its response.                                   *)
(***************************************************************************)
cleanup ==
    /\ request.op # "idle"
    /\ request' = Idle
    /\ response' = NoResponse
    /\ UNCHANGED <<tables, threads, pool>>

(***************************************************************************)
(* Concurrent requests.  app.run serves every request in a thread of its   *)
(* own, and every repository call of a service takes a connection from the *)
(* pool for one statement (Database.get_cursor), so a service that makes   *)
(* two repository calls runs two transactions, and the statements of other *)
(* requests can commit between them.  threads[t] is the request thread t   *)
(* serves: pc is the next repository call of its service, seen collects    *)
(* the committed states of the tables since the request began, out is the  *)
(* controller's answer once pc = "done".                                   *)
(***************************************************************************)
ThreadDone(th, out) ==
    [th EXCEPT !.pc = "done", !.out = RouteControllerResponse(out)]

ReorderInputs == [1..Len(stops) -> 0..(MaxStops - 1)]

route_api_reorder_route_stops_begin(t) ==
    /\ threads[t].pc = "idle"
    /\ \E route_id \in RouteIdInputs, stop_sequences \in ReorderInputs :
         threads' = [threads EXCEPT ![t] =
                        [IdleThread EXCEPT !.op = "reorder_route_stops",
                                           !.pc = "get_by_id", !.id = route_id,
                                           !.seqs = Some(stop_sequences),
                                           !.seen = {tables}]]
    /\ UNCHANGED <<tables, request, response, pool>>

route_api_get_route_stops_begin(t) ==
    /\ threads[t].pc = "idle"
    /\ \E route_id \in RouteIdInputs :
         threads' = [threads EXCEPT ![t] =
                        [IdleThread EXCEPT !.op = "get_stops_on_route",
                                           !.pc = "get_by_id", !.id = route_id,
                                           !.seen = {tables}]]
    /\ UNCHANGED <<tables, request, response, pool>>

route_api_check_point_on_route_begin(t) ==
    /\ threads[t].pc = "idle"
    /\ \E route_id \in RouteIdInputs, p \in Points, qtol \in ToleranceInputs :
         threads' = [threads EXCEPT ![t] =
                        [IdleThread EXCEPT !.op = "is_point_on_route",
                                           !.pc = "get_by_id", !.id = route_id,
                                           !.lat = p.lat, !.lon = p.lon,
                                           !.tol = ArgsGet(qtol, DefaultTolerance),
                                           !.seen = {tables}]]
    /\ UNCHANGED <<tables, request, response, pool>>

\* route = self.repository.get_by_id(route_id); if not route: raise ValueError
RouteService_get_by_id_step(t) ==
    /\ threads[t].pc = "get_by_id"
    /\ LET th == [threads[t] EXCEPT !.seen = @ \cup {tables}]
           route == RouteRepository_get_by_id(routes, th.id)
       IN  threads' = [threads EXCEPT ![t] =
               IF route.kind # "ok"
               THEN ThreadDone(th, Raise(route.kind, "QueryFailed", 1))
               ELSE IF route.val = None
               THEN ThreadDone(th, Raise("ValueError", "RouteNotFound", 1))
               ELSE [th EXCEPT !.pc = th.op]]
    /\ UNCHANGED <<tables, request, response, pool>>

\* success = self.repository.reorder_route_stops(route_id, stop_sequences)
RouteService_reorder_route_stops_step(t) ==
    /\ threads[t].pc = "reorder_route_stops"
    /\ LET th == [threads[t] EXCEPT !.seen = @ \cup {tables}]
           r == RouteRepository_reorder_route_stops(routestops, th.id,
                                                    th.seqs[1])
       IN  /\ threads' = [threads EXCEPT ![t] =
                 ThreadDone(th, StopManagementDone(r, "ReorderFailed").out)]
           /\ routestops' = r.db
    /\ UNCHANGED <<stops, routes, buses, request, response, pool>>

\* return self.repository.get_stops_on_route(route_id)
RouteService_get_stops_on_route_step(t) ==
    /\ threads[t].pc = "get_stops_on_route"
    /\ LET th == [threads[t] EXCEPT !.seen = @ \cup {tables}]
           r == RouteRepository_get_stops_on_route(routestops, th.id)
       IN  threads' = [threads EXCEPT ![t] =
               IF r.kind # "ok"
               THEN ThreadDone(th, Raise(r.kind, "QueryFailed", 2))
               ELSE ThreadDone(th, Return(r.val, FALSE, 0, 2))]
    /\ UNCHANGED <<tables, request, response, pool>>

\* return self.repository.is_point_on_route(route_id, latitude, longitude, ...)
RouteService_is_point_on_route_step(t) ==
    /\ threads[t].pc = "is_point_on_route"
    /\ LET th == [threads[t] EXCEPT !.seen = @ \cup {tables}]
           r == RouteRepository_is_point_on_route(routes, th.id, th.lat,
                                                  th.lon, th.tol)
       IN  threads' = [threads EXCEPT ![t] =
               IF r.kind # "ok"
               THEN ThreadDone(th, Raise(r.kind, "QueryFailed", 2))
               ELSE ThreadDone(th, Return(<<>>, r.val, 0, 2))]
    /\ UNCHANGED <<tables, request, response, pool>>

bus_api_check_bus_on_route_begin(t) ==
    /\ threads[t].pc = "idle"
    /\ \E bus_id \in BusIdInputs, qtol \in ToleranceInputs :
         threads' = [threads EXCEPT ![t] =
                        [IdleThread EXCEPT !.op = "is_bus_on_route",
                                           !.pc = "exists", !.id = bus_id,
                                           !.tol = ArgsGet(qtol, DefaultTolerance),
                                           !.seen = {tables}]]
    /\ UNCHANGED <<tables, request, response, pool>>

\* if not self.repository.exists(bus_id): raise ValueError
BusService_exists_step(t) ==
    /\ threads[t].pc = "exists"
    /\ LET th == [threads[t] EXCEPT !.seen = @ \cup {tables}]
           found == BusRepository_exists(buses, th.id)
       IN  threads' = [threads EXCEPT ![t] =
               IF found.kind # "ok"
               THEN ThreadDone(th, Raise(found.kind, "QueryFailed", 1))
               ELSE IF ~found.val
               THEN ThreadDone(th, Raise("ValueError", "BusNotFound", 1))
               ELSE [th EXCEPT !.pc = th.op]]
    /\ UNCHANGED <<tables, request, response, pool>>

\* return self.repository.is_bus_on_route(bus_id, tolerance_meters)
BusService_is_bus_on_route_step(t) ==
    /\ threads[t].pc = "is_bus_on_route"
    /\ LET th == [threads[t] EXCEPT !.seen = @ \cup {tables}]
           r == BusRepository_is_bus_on_route(buses, routes, th.id, th.tol)
       IN  threads' = [threads EXCEPT ![t] =
               IF r.kind # "ok"
               THEN ThreadDone(th, Raise(r.kind, "QueryFailed", 2))
               ELSE ThreadDone(th, Return(<<>>, r.val, 0, 2))]
    /\ UNCHANGED <<tables, request, response, pool>>

\* The response has been sent; the thread takes the next request.
\* The names of concurrent creates and renames, with and without
\* surrounding whitespace.
RenameInputs ==
    {<<"R", "0", "1">>, <<"R", "0", "3">>, <<" ", "R", "0", "3">>,
     <<" ", "a", "b">>}

\* A path a create is sent with.
SamplePath == <<[lat |-> 0, lon |-> 0], [lat |-> 0, lon |-> 1]>>

\* PUT /api/routes/<id> with a body that holds a name.
route_api_update_route_begin(t) ==
    /\ threads[t].pc = "idle"
    /\ \E route_id \in RouteIdInputs, qname \in RenameInputs :
         threads' = [threads EXCEPT ![t] =
                        [IdleThread EXCEPT !.op = "update_route",
                                           !.pc = "get_by_id", !.id = route_id,
                                           !.name = qname]]
    /\ UNCHANGED <<tables, request, response, pool>>

\* POST /api/routes/ with a name and coordinates.
route_api_create_route_begin(t) ==
    /\ threads[t].pc = "idle"
    /\ \E qname \in RenameInputs :
         threads' = [threads EXCEPT ![t] =
                        [IdleThread EXCEPT !.op = "create_route",
                                           !.pc = "create_route",
                                           !.name = qname,
                                           !.coords = SamplePath]]
    /\ UNCHANGED <<tables, request, response, pool>>

\* RouteService.update, after get_by_id: the length of the name and
\* existing = self.repository.get_by_name(name.strip()).
RouteService_update_step(t) ==
    /\ threads[t].pc = "update_route"
    /\ LET th == threads[t]
           existing == RouteRepository_get_by_name(routes, strip(th.name))
       IN  threads' = [threads EXCEPT ![t] =
               IF Len(strip(th.name)) < MinNameLen
               THEN ThreadDone(th, Raise("ValueError", "NameTooShort", 1))
               ELSE IF existing.kind # "ok"
               THEN ThreadDone(th, Raise(existing.kind, "QueryFailed", 2))
               ELSE IF existing.val # None /\ existing.val[1].id # th.id
               THEN ThreadDone(th, Raise("ValueError", "DuplicateName", 2))
               ELSE [th EXCEPT !.pc = "repository_update"]]
    /\ UNCHANGED <<tables, request, response, pool>>

\* return self.repository.update(route_id, update_data)
RouteRepository_update_step(t) ==
    /\ threads[t].pc = "repository_update"
    /\ LET th == threads[t]
           r == RouteRepository_update(routes, th.id,
                    [name |-> Some(strip(th.name)), coordinates |-> None])
       IN  /\ threads' = [threads EXCEPT ![t] =
                 IF r.kind # "ok"
                 THEN ThreadDone(th, Raise(r.kind, "QueryFailed", 3))
                 ELSE ThreadDone(th, Return(OptRows(r.val), r.val # None, 0, 3))]
           /\ routes' = r.db
    /\ UNCHANGED <<stops, buses, routestops, request, response, pool>>

\* RouteService.create: the length of the name and
\* existing = self.repository.get_by_name(name.strip()).
RouteService_create_step(t) ==
    /\ threads[t].pc = "create_route"
    /\ LET th == threads[t]
           existing == RouteRepository_get_by_name(routes, strip(th.name))
       IN  threads' = [threads EXCEPT ![t] =
               IF Len(strip(th.name)) < MinNameLen
               THEN ThreadDone(th, Raise("ValueError", "NameTooShort", 0))
               ELSE IF existing.kind # "ok"
               THEN ThreadDone(th, Raise(existing.kind, "QueryFailed", 1))
               ELSE IF existing.val # None
               THEN ThreadDone(th, Raise("ValueError", "DuplicateName", 1))
               ELSE [th EXCEPT !.pc = "repository_create"]]
    /\ UNCHANGED <<tables, request, response, pool>>

\* entity_dict = self.repository.create({...}); the controller then reads
\* route.get('id').
RouteRepository_create_step(t) ==
    /\ threads[t].pc = "repository_create"
    /\ LET th == threads[t]
           r == RouteRepository_create(routes,
                    [name |-> strip(th.name), coordinates |-> th.coords])
       IN  /\ threads' = [threads EXCEPT ![t] =
                 IF r.kind # "ok"
                 THEN ThreadDone(th, Raise(r.kind, "QueryFailed", 2))
                 ELSE IF r.val = None
                 THEN ThreadDone(th, Raise("AttributeError", "NoneRoute", 2))
                 ELSE [ThreadDone(th, Return(OptRows(r.val), TRUE, 0, 2))
                          EXCEPT !.out.status = HttpCreated]]
           /\ routes' = r.db
    /\ UNCHANGED <<stops, buses, routestops, request, response, pool>>

thread_cleanup(t) ==
    /\ threads[t].pc = "done"
    /\ threads' = [threads EXCEPT ![t] = IdleThread]
    /\ UNCHANGED <<tables, request, response, pool>>

(***************************************************************************)
(* The database as database/import_data.py loads it: stops with a          *)
(* location, routes with a path of at least two points, Active buses       *)
(* assigned to a route and without a location yet.  A query reads one      *)
(* table only, so each specification loads the table its queries read and  *)
(* leaves the tables they never read empty.                                *)
(***************************************************************************)
PathsOver(C, maxLen) == UNION {[1..k -> C] : k \in MinPathLen..maxLen}

import_stops == stops \in UNION {[1..n -> Points] : n \in 0..MaxStops}

import_routes(maxLen) ==
    routes \in {<<>>} \cup {<<[name |-> <<"R", "0", "1">>, path |-> p]>>
                                : p \in PathsOver(Points, maxLen)}

import_sample_buses ==
    buses \in UNION {[1..k -> [route_id : {Some(r) : r \in DOMAIN routes},
                               status : {"Active"}, loc : {None}]]
                        : k \in 0..MaxBuses}

\* Mutation: every stop of the trip is inserted with the same sequence.
import_route_stops_ConstantSequence(route_id, stop_ids) ==
    {[route_id |-> route_id, stop_id |-> stop_ids[i], stop_sequence |-> 0]
        : i \in DOMAIN stop_ids}

\* for sequence, stop_id in enumerate(stop_ids): INSERT INTO routestops
import_route_stops(route_id, stop_ids) ==
    {[route_id |-> route_id, stop_id |-> stop_ids[i], stop_sequence |-> i - 1]
        : i \in DOMAIN stop_ids}

\* A feed of up to MaxStops stops and one trip, which calls at the first k
\* of them in order: the route's path runs through these stops, and each is
\* associated with the route at its position in the trip.
import_trip ==
    /\ import_stops
    /\ \E k \in {0} \cup (MinPathLen..Len(stops)) :
         /\ routes = IF k = 0 THEN <<>>
                     ELSE <<[name |-> <<"R", "0", "1">>,
                             path |-> [i \in 1..k |-> stops[i]]]>>
         /\ routestops = IF k = 0 THEN {}
                         ELSE import_route_stops(1, [i \in 1..k |-> i])

\* The stops queries.
InitStops ==
    /\ import_stops
    /\ routes = <<>>
    /\ buses = <<>>
    /\ routestops = {}
    /\ threads = NoThreads
    /\ pool = PoolAtRest
    /\ request = Idle
    /\ response = NoResponse

NextStops ==
    \/ stop_api_find_nearest_stops
    \/ cleanup

SpecStops == InitStops /\ [][NextStops]_vars

\* The route geometry queries.
InitRoutes ==
    /\ stops = <<>>
    /\ import_routes(MaxPathLen)
    /\ buses = <<>>
    /\ routestops = {}
    /\ threads = NoThreads
    /\ pool = PoolAtRest
    /\ request = Idle
    /\ response = NoResponse

NextRoutes ==
    \/ route_api_find_routes_near_location
    \/ route_api_check_point_on_route
    \/ route_api_get_route_length
    \/ cleanup

SpecRoutes == InitRoutes /\ [][NextRoutes]_vars

\* The bus queries.
InitBuses ==
    /\ stops = <<>>
    /\ import_routes(MinPathLen)
    /\ import_sample_buses
    /\ routestops = {}
    /\ threads = NoThreads
    /\ pool = PoolAtRest
    /\ request = Idle
    /\ response = NoResponse

NextBuses ==
    \/ bus_api_find_nearest_buses
    \/ cleanup

SpecBuses == InitBuses /\ [][NextBuses]_vars

\* The route writes.
InitRouteWrites ==
    /\ stops = <<>>
    /\ import_routes(MinPathLen)
    /\ buses = <<>>
    /\ routestops = {}
    /\ threads = NoThreads
    /\ pool = PoolAtRest
    /\ request = Idle
    /\ response = NoResponse

NextRouteWrites ==
    \/ route_api_create_route
    \/ route_api_update_route
    \/ route_api_update_route_geometry
    \/ cleanup

SpecRouteWrites == InitRouteWrites /\ [][NextRouteWrites]_vars

\* The stops of a route.
InitRouteStops ==
    /\ import_trip
    /\ buses = <<>>
    /\ threads = NoThreads
    /\ pool = PoolAtRest
    /\ request = Idle
    /\ response = NoResponse

NextRouteStops ==
    \/ route_api_get_route_stops
    \/ route_api_add_stop_to_route
    \/ route_api_remove_stop_from_route
    \/ route_api_reorder_route_stops
    \/ cleanup

SpecRouteStops == InitRouteStops /\ [][NextRouteStops]_vars

\* A feed whose stops all lie at one point: where the stops are does not
\* matter to the order in which a route calls at them.
import_trip_colocated ==
    /\ import_trip
    /\ \A i \in DOMAIN stops : stops[i] = [lat |-> 0, lon |-> 0]

\* Concurrent reorders and readers of the stops of a route.
InitReorder ==
    /\ import_trip_colocated
    /\ buses = <<>>
    /\ threads = NoThreads
    /\ pool = PoolAtRest
    /\ request = Idle
    /\ response = NoResponse

NextReorder ==
    \E t \in ConcurrentRequests :
        \/ route_api_reorder_route_stops_begin(t)
        \/ route_api_get_route_stops_begin(t)
        \/ RouteService_get_by_id_step(t)
        \/ RouteService_reorder_route_stops_step(t)
        \/ RouteService_get_stops_on_route_step(t)
        \/ thread_cleanup(t)

SpecReorder == InitReorder /\ [][NextReorder]_vars

\* Whether a bus is on its route, while administrators edit the buses.
InitBusOnRoute ==
    /\ stops = <<>>
    /\ import_routes(MinPathLen)
    /\ import_sample_buses
    /\ routestops = {}
    /\ threads = NoThreads
    /\ pool = PoolAtRest
    /\ request = Idle
    /\ response = NoResponse

NextBusOnRoute ==
    \/ bus_api_check_bus_on_route
    \/ bus_api_update_bus
    \/ cleanup

SpecBusOnRoute == InitBusOnRoute /\ [][NextBusOnRoute]_vars

\* The five proximity queries over a database holding stops, a route through
\* them and its buses.
InitProximity ==
    /\ import_trip
    /\ import_sample_buses
    /\ threads = NoThreads
    /\ pool = PoolAtRest
    /\ request = Idle
    /\ response = NoResponse

NextProximity ==
    \/ stop_api_find_nearest_stops
    \/ route_api_find_routes_near_location
    \/ route_api_check_point_on_route
    \/ bus_api_find_nearest_buses
    \/ bus_api_check_bus_on_route
    \/ cleanup

SpecProximity == InitProximity /\ [][NextProximity]_vars

\* Checks of whether a bus is on its route, served while administrators
\* delete buses.
InitSnapshot ==
    /\ import_trip_colocated
    /\ import_sample_buses
    /\ threads = NoThreads
    /\ pool = PoolAtRest
    /\ request = Idle
    /\ response = NoResponse

NextSnapshot ==
    \/ \E t \in ConcurrentRequests :
          \/ bus_api_check_bus_on_route_begin(t)
          \/ BusService_exists_step(t)
          \/ BusService_is_bus_on_route_step(t)
          \/ thread_cleanup(t)
    \/ bus_api_delete_bus
    \/ cleanup

SpecSnapshot == InitSnapshot /\ [][NextSnapshot]_vars

\* The position and the status of the buses, as drivers and administrators
\* update them.
InitBusLocation ==
    /\ stops = <<>>
    /\ import_routes(MinPathLen)
    /\ import_sample_buses
    /\ routestops = {}
    /\ threads = NoThreads
    /\ pool = PoolAtRest
    /\ request = Idle
    /\ response = NoResponse

NextBusLocation ==
    \/ bus_api_update_bus_location
    \/ bus_api_update_bus_status
    \/ bus_api_update_bus
    \/ cleanup

SpecBusLocation == InitBusLocation /\ [][NextBusLocation]_vars

\* A sequence of calls of the Database methods on the pool.
InitPool ==
    /\ stops = <<>>
    /\ routes = <<>>
    /\ buses = <<>>
    /\ routestops = {}
    /\ threads = NoThreads
    /\ pool = PoolAtRest
    /\ request = Idle
    /\ response = NoResponse

NextPool ==
    \/ Database_call
    \/ get_connection_getconn
    \/ get_cursor_cursor
    \/ cursor_execute
    \/ get_cursor_commit
    \/ get_cursor_rollback
    \/ get_cursor_close
    \/ get_connection_finally
    \/ Database_return

SpecPool == InitPool /\ [][NextPool]_vars

\* Two routes of the feed, each with the short name of its own.
import_two_routes ==
    routes = <<[name |-> <<"R", "0", "1">>, path |-> SamplePath],
               [name |-> <<"R", "0", "2">>, path |-> SamplePath]>>

\* Administrators creating and renaming routes at the same time.
InitRouteNames ==
    /\ stops = <<>>
    /\ import_two_routes
    /\ buses = <<>>
    /\ routestops = {}
    /\ threads = NoThreads
    /\ pool = PoolAtRest
    /\ request = Idle
    /\ response = NoResponse

NextRouteNames ==
    \E t \in ConcurrentRequests :
        \/ route_api_update_route_begin(t)
        \/ route_api_create_route_begin(t)
        \/ RouteService_get_by_id_step(t)
        \/ RouteService_update_step(t)
        \/ RouteRepository_update_step(t)
        \/ RouteService_create_step(t)
        \/ RouteRepository_create_step(t)
        \/ thread_cleanup(t)

SpecRouteNames == InitRouteNames /\ [][NextRouteNames]_vars

\* Listing the buses page by page, while administrators edit them.
InitBusPages ==
    /\ stops = <<>>
    /\ import_routes(MinPathLen)
    /\ import_sample_buses
    /\ routestops = {}
    /\ threads = NoThreads
    /\ pool = PoolAtRest
    /\ request = Idle
    /\ response = NoResponse

NextBusPages ==
    \/ bus_api_get_all_buses
    \/ bus_api_get_active_buses
    \/ bus_api_update_bus
    \/ cleanup

SpecBusPages == InitBusPages /\ [][NextBusPages]_vars

(***************************************************************************)
(* Properties.                                                             *)
(***************************************************************************)
HasOrigin == request.lat # None /\ request.lon # None
ReqOrigin == Origin(request.lat[1], request.lon[1])
StopRadius == ArgsGet(request.radius, DefaultStopRadius)
StopLimit == ArgsGet(request.limit, DefaultStopLimit)
BusLimit == ArgsGet(request.limit, DefaultBusLimit)
RouteRadius == ArgsGet(request.radius, DefaultRouteRadius)
Tolerance == ArgsGet(request.tol, DefaultTolerance)

NearestStopsCall == request.op = "find_nearest_stops" /\ HasOrigin
NearestBusesCall == request.op = "find_nearest_buses" /\ HasOrigin
RoutesNearCall == request.op = "find_routes_near_location" /\ HasOrigin
CheckPointCall == request.op = "check_point_on_route" /\ HasOrigin

SortedByDistance(rows) ==
    \A i \in 1..(Len(rows) - 1) : rows[i].distance <= rows[i + 1].distance

TiesById(rows) ==
    \A i \in 1..Len(rows) : \A j \in (i + 1)..Len(rows) :
        rows[i].distance = rows[j].distance => rows[i].id < rows[j].id

RowIds(rows) == {rows[i].id : i \in 1..Len(rows)}

\* The distance from the request's origin to the nearest segment of a path
\* is at most d.
SomeSegmentWithin(path, d) ==
    \E i \in 1..(Len(path) - 1) :
        ProjectPointOntoSegment(ReqOrigin, path[i], path[i + 1]) <= d

\* C1: with a finite radius and limit >= 1, find_nearest_stops and
\* find_nearest_buses return a sequence sorted non-decreasing by distance,
\* and every returned stop lies within radius_meters.
C1_NearestSortedWithinRadius ==
    /\ (NearestStopsCall /\ StopRadius >= 1 /\ StopLimit >= 1) =>
          /\ response.kind = "ok"
          /\ SortedByDistance(response.rows)
          /\ \A i \in 1..Len(response.rows) :
                response.rows[i].distance <= StopRadius
    /\ (NearestBusesCall /\ BusLimit >= 1) =>
          /\ response.kind = "ok"
          /\ SortedByDistance(response.rows)

\* C2: find_nearest_stops returns exactly the first min(limit, k) of the k
\* stops within radius_meters, nearest first: never more than limit entries,
\* and no stop within the radius is left out while a farther one is returned.
C2_NearestStopsExactSubset ==
    (NearestStopsCall /\ StopRadius >= 1 /\ StopLimit >= 1) =>
        LET within == {i \in DOMAIN stops :
                          Distance(ReqOrigin, stops[i]) <= StopRadius}
            rows == response.rows
        IN  /\ response.kind = "ok"
            /\ Len(rows) = Min(StopLimit, Cardinality(within))
            /\ RowIds(rows) \subseteq within
            /\ Cardinality(RowIds(rows)) = Len(rows)
            /\ \A i \in 1..Len(rows) :
                  rows[i].distance = Distance(ReqOrigin, stops[rows[i].id])
            /\ \A j \in within \ RowIds(rows) : \A i \in 1..Len(rows) :
                  rows[i].distance <= Distance(ReqOrigin, stops[j])
            /\ SortedByDistance(rows)

\* C3: find_nearest_stops and find_nearest_buses called with limit = 0 or a
\* negative limit fail with InvalidArgument (a ValueError answered with 400)
\* and return no results.
C3_NonPositiveLimitRejected ==
    /\ (NearestStopsCall /\ StopLimit <= 0) =>
          (response.kind = "ValueError" /\ response.rows = <<>>)
    /\ (NearestBusesCall /\ BusLimit <= 0) =>
          (response.kind = "ValueError" /\ response.rows = <<>>)

\* C4: a nearest query returns its candidates with those at equal distance
\* in ascending order of identifier, so the returned sequence is a function
\* of the arguments and the stored data alone.
C4_TiesBrokenById ==
    /\ (NearestStopsCall /\ StopRadius >= 1 /\ StopLimit >= 1) =>
          (response.kind = "ok" /\ TiesById(response.rows))
    /\ (NearestBusesCall /\ BusLimit >= 1) =>
          (response.kind = "ok" /\ TiesById(response.rows))

\* C5 (as claimed): find_nearest_stops called with radius_meters = 0 is not
\* rejected.
C5_ZeroRadiusAccepted ==
    (NearestStopsCall /\ request.radius = Some(0)) =>
        response.kind # "ValueError"

\* C5 (amended): find_nearest_stops called with a radius below 1 metre, 0
\* included, is rejected with a ValueError about the radius before any
\* repository call; called without a radius it uses the default of 1000
\* metres and is not rejected on the radius.
C5_ZeroRadiusRejected ==
    NearestStopsCall =>
        /\ StopRadius < 1 =>
              /\ response.kind = "ValueError"
              /\ response.err = "RadiusTooSmall"
              /\ response.status = HttpFail
              /\ response.calls = 0
        /\ request.radius = None =>
              (StopRadius = DefaultStopRadius /\ response.err # "RadiusTooSmall")

C5_Witness ==
    /\ NearestStopsCall
    /\ request.radius = Some(0)
    /\ request.limit = Some(1)
    /\ response.err = "RadiusTooSmall"

\* C6: find_routes_near_location fails with a ValueError about the radius,
\* without any repository call, whenever radius_meters < 1 or
\* radius_meters > 10000; for a radius in [1, 10000] it does not fail on the
\* radius and goes on to the repository.
C6_RouteRadiusBounds ==
    RoutesNearCall =>
        /\ (RouteRadius < 1 \/ RouteRadius > 10000) =>
              /\ response.kind = "ValueError"
              /\ response.err \in {"RadiusTooSmall", "RadiusTooLarge"}
              /\ response.calls = 0
        /\ (RouteRadius >= 1 /\ RouteRadius <= 10000) =>
              /\ response.kind # "ValueError"
              /\ response.calls = 1

C6_Witness ==
    /\ RoutesNearCall
    /\ request.radius = Some(10001)
    /\ response.err = "RadiusTooLarge"
    /\ response.calls = 0

\* C7: find_routes_near_location returns exactly the routes some segment of
\* whose path is within radius_meters of the origin, ordered non-decreasing
\* by the distance to the nearest segment.
C7_RoutesNearExact ==
    (RoutesNearCall /\ RouteRadius >= 1 /\ RouteRadius <= 10000) =>
        /\ response.kind = "ok"
        /\ RowIds(response.rows) =
              {r \in DOMAIN routes : SomeSegmentWithin(routes[r].path, RouteRadius)}
        /\ SortedByDistance(response.rows)

\* C8: is_point_on_route on a stored route returns true if and only if some
\* segment of the route's path is within tolerance_meters of the point.
C8_PointOnRouteIffWithinTolerance ==
    (CheckPointCall /\ request.id \in DOMAIN routes) =>
        /\ response.kind = "ok"
        /\ response.flag = SomeSegmentWithin(routes[request.id].path, Tolerance)

C8_Witness ==
    /\ CheckPointCall
    /\ request.id \in DOMAIN routes
    /\ Len(routes[request.id].path) = 3
    /\ response.kind = "ok"
    /\ response.flag
    /\ ProjectPointOntoSegment(ReqOrigin, routes[request.id].path[1],
                               routes[request.id].path[2]) > Tolerance

\* C9: for every stored route, every vertex of its path and every tolerance
\* >= 0, zero included, is_point_on_route answers true.
C9_VertexIsOnRoute ==
    (/\ CheckPointCall
     /\ request.id \in DOMAIN routes
     /\ Tolerance >= 0
     /\ \E i \in 1..Len(routes[request.id].path) :
            routes[request.id].path[i] = ReqOrigin) =>
        (response.kind = "ok" /\ response.flag /\ response.status = HttpOk)

C9_Witness ==
    /\ CheckPointCall
    /\ request.id \in DOMAIN routes
    /\ request.tol = Some(0)
    /\ Len(routes[request.id].path) = 3
    /\ routes[request.id].path[3] = ReqOrigin
    /\ routes[request.id].path[1] # ReqOrigin
    /\ routes[request.id].path[2] # ReqOrigin
    /\ response.flag

ShortCoordinates(req) ==
    /\ req.op \in {"create_route", "update_route", "update_route_geometry"}
    /\ req.coords # None
    /\ Len(req.coords[1]) < MinPathLen

StoredPaths(routesT) == [r \in DOMAIN routesT |-> routesT[r].path]

\* C11: across route create, update and update_geometry every stored route
\* keeps a path of at least 2 coordinates, and a call that carries fewer than
\* 2 coordinates is answered with an error and leaves every stored path as
\* it was.
C11_StoredPathsHaveTwoPoints ==
    /\ [](\A r \in DOMAIN routes : Len(routes[r].path) >= MinPathLen)
    /\ [][ShortCoordinates(request') =>
            /\ response'.kind # "ok"
            /\ response'.status \in {HttpFail, HttpError}
            /\ StoredPaths(routes') = StoredPaths(routes)]_vars

C11_Witness ==
    /\ request.op = "update_route_geometry"
    /\ request.id \in DOMAIN routes
    /\ request.coords # None
    /\ Len(request.coords[1]) = 1
    /\ response.kind = "Exception"
    /\ response.status = HttpError
    /\ Len(routes[request.id].path) = MinPathLen

RouteLengthCall == request.op = "get_route_length"

\* The length of the first n points of a path, summed from its far end.
RECURSIVE LengthOfPrefix(_, _)
LengthOfPrefix(path, n) ==
    IF n <= 1 THEN 0
    ELSE LengthOfPrefix(path, n - 1) + Distance(path[n - 1], path[n])

Colinear(a, b, c) ==
    (b.lat - a.lat) * (c.lon - a.lon) = (b.lon - a.lon) * (c.lat - a.lat)

\* C12: get_route_length of a stored route is the sum of Distance over the
\* consecutive coordinate pairs of its path; for a path [a, b, c] it is
\* Distance(a, b) + Distance(b, c).
C12_LengthIsSumOfSegments ==
    (RouteLengthCall /\ request.id \in DOMAIN routes) =>
        LET path == routes[request.id].path
        IN  /\ response.kind = "ok"
            /\ response.num = LengthOfPrefix(path, Len(path))
            /\ Len(path) = 3 =>
                  response.num = Distance(path[1], path[2])
                                   + Distance(path[2], path[3])

C12_Witness ==
    /\ RouteLengthCall
    /\ request.id \in DOMAIN routes
    /\ Len(routes[request.id].path) = 3
    /\ LET path == routes[request.id].path
       IN  /\ Colinear(path[1], path[2], path[3])
           /\ path[1] # path[2]
           /\ path[2] # path[3]
           /\ response.num = Distance(path[1], path[2])
                               + Distance(path[2], path[3])
           /\ response.num > Distance(path[1], path[2])

\* C13: Distance is symmetric, so the distance a nearest-stops query reports
\* for a stop within the radius is also the distance from that stop to the
\* origin of the query.
C13_ReportedDistanceSymmetric ==
    /\ \A a \in Points, b \in Points : Distance(a, b) = Distance(b, a)
    /\ (NearestStopsCall /\ StopRadius >= 1 /\ StopLimit >= 1) =>
          /\ response.kind = "ok"
          /\ \A i \in 1..Len(response.rows) :
                response.rows[i].distance =
                    Distance(stops[response.rows[i].id], ReqOrigin)
          /\ (\E j \in DOMAIN stops : Distance(stops[j], ReqOrigin) <= StopRadius)
                => response.rows # <<>>

\* The request is a reorder in which two stops associated with the route
\* are given the same sequence value.
DuplicateTargets(req, rsT) ==
    /\ req.op = "reorder_route_stops"
    /\ req.seqs # None
    /\ \E a \in StopsOfRoute(rsT, req.id), b \in StopsOfRoute(rsT, req.id) :
          /\ a.stop_id # b.stop_id
          /\ a.stop_id \in DOMAIN req.seqs[1]
          /\ b.stop_id \in DOMAIN req.seqs[1]
          /\ req.seqs[1][a.stop_id] = req.seqs[1][b.stop_id]

\* C14: a reorder that gives two stops of the route the same target sequence
\* fails with a validation error (answered with 400), and every stop
\* association keeps the sequence value it had.
C14_DuplicateReorderRejected ==
    [][DuplicateTargets(request', routestops) =>
          /\ response'.kind \in {"ValidationError", "ValueError"}
          /\ response'.status = HttpFail
          /\ routestops' = routestops]_vars

FinishedReorder(t) ==
    /\ threads[t].op = "reorder_route_stops"
    /\ threads[t].pc = "done"
    /\ threads[t].out.kind = "ok"

\* Every stop the request of thread t listed has the sequence it asked for.
MappingStored(t) ==
    \A a \in StopsOfRoute(routestops, threads[t].id) :
        a.stop_id \in DOMAIN threads[t].seqs[1]
            => a.stop_sequence = threads[t].seqs[1][a.stop_id]

\* C16: once two concurrent reorders of the same route have both succeeded,
\* the stored sequencing of the route is the complete mapping of one of the
\* two requests.
C16_ConcurrentReordersLeaveOneMapping ==
    \A t \in ConcurrentRequests, u \in ConcurrentRequests :
        (/\ t # u
         /\ FinishedReorder(t) /\ FinishedReorder(u)
         /\ threads[t].id = threads[u].id)
            => (MappingStored(t) \/ MappingStored(u))

BusOnRouteCall == request.op = "check_bus_on_route"

BusMissing == request.id \notin DOMAIN buses

\* The bus exists and is assigned to no route that exists.
BusRouteMissing ==
    /\ request.id \in DOMAIN buses
    /\ \/ buses[request.id].route_id = None
       \/ buses[request.id].route_id[1] \notin DOMAIN routes

NotFoundAnswer ==
    /\ response.kind = "ValueError"
    /\ response.err \in {"BusNotFound", "RouteNotFound"}

\* C17: a check of whether a bus is on its route is answered with a
\* not-found error when the bus does not exist, and also when the bus exists
\* but its assigned route does not; in neither case with a boolean.
C17_BusOnRouteNotFound ==
    (BusOnRouteCall /\ (BusMissing \/ BusRouteMissing)) => NotFoundAnswer

ProximityQueries ==
    {"find_nearest_buses", "find_nearest_stops", "find_routes_near_location",
     "check_point_on_route", "check_bus_on_route"}

\* C18: a proximity query, answered with a result or with an error, leaves
\* the stored stops, routes, buses and route-stop sequences as they were.
C18_ProximityQueriesWriteNothing ==
    [][request'.op \in ProximityQueries => tables' = tables]_vars

C18_Witness ==
    /\ request.op = "check_bus_on_route"
    /\ response.kind = "ok"
    /\ stops # <<>> /\ routes # <<>> /\ buses # <<>> /\ routestops # {}

\* What the check of thread t answers when all of it is served on the
\* committed tables db.
BusOnRouteAnswerOn(db, t) ==
    BusWriteControllerResponse(
        BusService_is_bus_on_route(db[3], db[2], threads[t].id, threads[t].tol))

\* C19: the answer of a check of whether a bus is on its route is the answer
\* the check gives on one state of the tables that existed while the request
\* was served.
C19_AnswerFromOneSnapshot ==
    \A t \in ConcurrentRequests :
        (threads[t].op = "is_bus_on_route" /\ threads[t].pc = "done")
            => \E db \in threads[t].seen :
                   threads[t].out = BusOnRouteAnswerOn(db, t)

OutOfRange ==
    /\ HasOrigin
    /\ \/ request.lat[1] < -MaxLatitude \/ request.lat[1] > MaxLatitude
       \/ request.lon[1] < -MaxLongitude \/ request.lon[1] > MaxLongitude

\* C20: a proximity query whose latitude is outside [-90, 90] or whose
\* longitude is outside [-180, 180] is refused as an invalid argument, before
\* any repository call.
C20_OutOfRangeRejected ==
    (request.op \in ProximityQueries /\ OutOfRange)
        => (response.kind = "ValueError" /\ response.calls = 0)

\* The request being answered is a route update carrying a name and
\* coordinates, and it failed.
FailedFullUpdate(req, resp) ==
    /\ req.op = "update_route"
    /\ req.name # None /\ req.coords # None
    /\ resp.kind # "ok"

StopManagementStatement(req) ==
    IF req.op = "add_stop_to_route"
    THEN fn_add_stop_to_route(routestops, routes, stops, req.id, req.stop,
                              ArgsGet(req.seq, DefaultSequence))
    ELSE IF req.op = "remove_stop_from_route"
    THEN fn_remove_stop_from_route(routestops, req.id, req.stop)
    ELSE fn_reorder_route_stops(routestops, req.id, req.seqs[1])

StatementRaised(req) ==
    /\ req.op \in {"add_stop_to_route", "remove_stop_from_route",
                   "reorder_route_stops"}
    /\ req.op = "reorder_route_stops" => req.seqs # None
    /\ req.id \in DOMAIN routes
    /\ StopManagementStatement(req).err

\* C22: when the statement of a stop-management request raises, the error
\* the caller gets is of the kind the database raised: no layer replaces it
\* by an error of another kind or by a normal return value.
C22_ErrorKindPreserved ==
    StatementRaised(request)
        => response.kind = Database_fetch_one(StopManagementStatement(request)).kind

\* A valid stops query that no stored stop qualifies for.
NoStopQualifies ==
    /\ request.op = "find_nearest_stops"
    /\ HasOrigin /\ ~OutOfRange
    /\ StopRadius >= MinRadius /\ StopLimit >= MinLimit
    /\ \A i \in DOMAIN stops :
           ~WithinRadius(Distance(ReqOrigin, stops[i]), StopRadius)

\* C23: a nearest-stops query for which no stop qualifies, be it that none
\* is within the radius or that none is stored, succeeds with an empty
\* sequence.
C23_NoCandidateGivesEmptySequence ==
    NoStopQualifies => (response.kind = "ok" /\ response.rows = <<>>)

\* C24: GET /api/buses/<bus_id>/on-route is answered with status 404 when no
\* bus has that id, and with status 200 and a boolean otherwise.
C24_OnRouteStatus ==
    BusOnRouteCall
        => IF BusMissing THEN response.status = HttpNotFound
           ELSE response.status = HttpOk /\ response.kind = "ok"

ValidLocationUpdate(req) ==
    /\ req.op = "update_bus_location"
    /\ req.body # None
    /\ req.body[1] \in Points

\* C25: a location update of a bus that does not exist, or whose status is
\* not Active, raises ValueError and leaves the stored coordinates as they
\* were; a location update of an existing Active bus stores the new
\* coordinate.
C25_UpdateLocation ==
    [][ValidLocationUpdate(request') =>
         IF request'.id \notin DOMAIN buses
               \/ buses[request'.id].status # "Active"
         THEN response'.kind = "ValueError" /\ buses' = buses
         ELSE buses'[request'.id].loc = request'.body]_vars

\* C26: once a location update has answered success, the committed table,
\* which every later read and proximity query sees, holds the coordinate it
\* sent.
C26_LastWriteWins ==
    (ValidLocationUpdate(request) /\ response.kind = "ok")
        => buses[request.id].loc = request.body

\* C27: between calls of the Database methods no connection is checked out
\* and every connection taken has been returned once; a call that raised
\* has committed nothing and has left no transaction open.
C27_PoolAccounting ==
    /\ pool.returned <= pool.taken
    /\ pool.used = pool.taken - pool.returned
    /\ pool.pc = "rest" =>
         /\ pool.used = 0
         /\ pool.taken = pool.returned
         /\ pool.tx = "idle"
         /\ pool.raised => ~pool.committed

C27_Witness ==
    /\ pool.pc = "rest"
    /\ pool.method = "execute"
    /\ pool.raised /\ pool.rolledback
    /\ pool.answer = "raise"
    /\ pool.calls = MaxCalls
    /\ pool.returned = MaxCalls

\* C29: under every interleaving of creates and renames, no two stored
\* routes have the same name once surrounding whitespace is removed.
C29_RouteNamesUnique ==
    \A i, j \in DOMAIN routes :
        i # j => strip(routes[i].name) # strip(routes[j].name)

FirstPageRequest ==
    /\ request.op \in {"get_all_buses", "get_active_buses"}
    /\ PageCursor(request.body[1].cursor) = None

MatchingBuses ==
    {b \in DOMAIN buses :
        request.body[1].include_inactive \/ buses[b].status = "Active"}

\* C30: the first page of a bus listing is answered with at most limit
\* buses, in the order of their ids, and has_next is true exactly when more
\* matching buses remain than the page holds.
C30_FirstPage ==
    FirstPageRequest =>
        LET limit == ArgsGet(request.limit, DefaultPageLimit)
        IN  /\ response.kind = "ok"
            /\ Len(response.rows) <= limit
            /\ response.rows
                 = Truncate(BusRowsAscending(MatchingBuses), limit)
            /\ response.flag <=> Cardinality(MatchingBuses) > limit

====
